---- MODULE Spec2Model ----
(***************************************************************************)
(* Model of the videoCaptioner processing engine:                          *)
(*   - MultiprocessVideoManager (core/video_processor.py): the bounded     *)
(*     scheduler with its pending list, active set and the two queues;     *)
(*   - process_video_worker / VideoProcessorForMultiprocess.process: one   *)
(*     worker process per admitted task, step by step, with every event it *)
(*     puts on the progress queue and the result it puts on the result     *)
(*     queue;                                                              *)
(*   - SubtitleProcessor.check_process_updates (src/ui/main_window.py):    *)
(*     the caller that drains the progress queue and then the result       *)
(*     queue.                                                              *)
(*                                                                         *)
(* A queue of the model holds the items a get_nowait() of the manager can  *)
(* read.  multiprocessing.Queue() without a maxsize is bounded by          *)
(* SEM_VALUE_MAX; QueueCap stands for that capacity.                       *)
(*                                                                         *)
(* A step of a worker is the code up to and including one operation on a   *)
(* queue; the code between two queue operations touches nothing shared.    *)
(***************************************************************************)
EXTENDS Integers, Sequences, FiniteSets, TLC

\* ------------------------------------------------------------------ bounds
MaxJobs == 3
QueueCap == 2
MaxChunks == 3
MaxBatches == 3
MaxLines == 3
MaxCues == 2

VARIABLES
    \* MultiprocessVideoManager fields
    processes, active_processes, pending_tasks, progress_queue, result_queue,
    is_processing, next_process_id, max_processes,
    \* task_info dictionaries, by task_id
    tasks,
    \* the worker process of each started task
    worker,
    \* SubtitleProcessor (caller) fields, and where the caller is
    active_process_ids, caller,
    \* what the environment offers: what the submitted videos can be like and
    \* how many submissions are made
    inputs, quota,
    \* observer: the results each worker has put on the result queue
    results_put,
    \* one call of translate_subtitles' engine branch: the cues, the batches
    \* and the translated entries so far
    translator,
    \* one subtitle file through the parser and the writer of
    \* translate_subtitles
    srt,
    \* one call of SpeechRecognizer.transcribe on a long audio, and the SRT
    \* made of its result
    transcription,
    \* the worker processes inside SpeechRecognizer._load_model, and the
    \* lock file and the model cache they share
    loading,
    \* the threads of one process inside SpeechRecognizer.transcribe, and
    \* the _model_lock and the _model they share
    threads,
    \* the videos submitted together with one cache_dir, and where the worker
    \* of each is on its way through the cache artifacts
    cache,
    \* the application session of SubtitleProcessor: the configured
    \* max_processes, the manager it has made and the batches it processes
    session

vars == <<processes, active_processes, pending_tasks, progress_queue,
          result_queue, is_processing, next_process_id, max_processes,
          tasks, worker, active_process_ids, caller, inputs, quota,
          results_put, translator, srt, transcription, loading, threads,
          cache, session>>

\* what no operation of the manager or of a worker process changes after Init
env ==
    <<max_processes, inputs, quota, translator, srt, transcription, loading,
      threads, cache, session>>

\* ------------------------------------------------------------ small helpers
Min(a, b) == IF a < b THEN a ELSE b

Range(s) == {s[k] : k \in 1..Len(s)}

Jobs == 0..(MaxJobs - 1)

\* ------------------------------------------------------------------ inputs
\* the max_processes _get_default_max_processes gives on systems other than
\* Apple Silicon (there it gives 4)
DefaultMaxProcesses == {1, 2}

\* the engine names main_window's selector offers
Engines == {"OpenAI Translate", "Google Translate"}

\* the lengths of the lines ffmpeg writes on stderr while burning
LineLens == {60, 900}

\* What the submitted videos can be like.  engine: the engine they are
\* submitted with; cache: whether cache_dir can be
\* written (VideoLogger makes its log directory there); exists: whether
\* video_path is a file; chunks: 0 is an audio file below 1000 bytes, 1 an audio no longer
\* than chunk_duration, n >= 2 an audio cut in n chunks; batches: the number
\* of translation batches the cues make; lines: how many lines ffmpeg writes
\* at most.
LongVideos ==
    [engine |-> Engines, cache |-> {TRUE, FALSE}, exists |-> {TRUE, FALSE},
     chunks |-> 0..MaxChunks, batches |-> 1..MaxBatches, lines |-> MaxLines]

\* videos whose cache directory cannot be written: the constructor of
\* VideoProcessorForMultiprocess raises in VideoLogger
UnwritableCache ==
    [engine |-> {"OpenAI Translate"}, cache |-> {FALSE}, exists |-> {TRUE},
     chunks |-> {0}, batches |-> {1}, lines |-> 0]

\* one video of any kind, or a batch of videos with an unwritable cache
Scenarios ==
    {[quota |-> 1, max_processes |-> {1}, inputs |-> LongVideos],
     [quota |-> MaxJobs, max_processes |-> DefaultMaxProcesses,
      inputs |-> UnwritableCache]}

\* no call of the functions followed on their own is under way
NoCall == [pc |-> "none"]

\* ---------------------------------------------------------- worker process
\* mp.Process(target=process_video_worker, ...) right after start();
\* progress is the value of its last report_progress call; session and
\* logger are the processor's requests.Session and VideoLogger, model the
\* _model of the process's SpeechRecognizer
NewProcess ==
    [pc |-> "start", i |-> 0, n |-> 0, len |-> 0, res |-> "none",
     progress |-> -1, session |-> "none", logger |-> "none",
     model |-> "none"]

\* a process that has ended in the given way: nothing of its state is left
Ended(how) ==
    [pc |-> how, i |-> 0, n |-> 0, len |-> 0, res |-> "none", progress |-> -1,
     session |-> "none", logger |-> "none", model |-> "none"]

\* Process.is_alive()
is_alive(p) == p.pc \notin {"exited", "terminated", "died"}

\* ----------------------------------------------------------------- manager
\* The manager fields the scheduling methods read and write, as one record.
Manager ==
    [active |-> active_processes, pending |-> pending_tasks,
     processes |-> processes, tasks |-> tasks, worker |-> worker]

\* a cleanup that never finds a finished process
finished_process_ids_none(m) == {}

\* the ids _cleanup_finished_processes collects
finished_process_ids(m) == {id \in m.active : ~is_alive(m.worker[id])}

_cleanup_finished_processes(m) ==
    LET finished == finished_process_ids(m) IN
    [m EXCEPT
        !.tasks = [id \in DOMAIN m.tasks |->
                      IF id \in finished
                      THEN [m.tasks[id] EXCEPT !.completed = TRUE,
                                               !.status = "completed"]
                      ELSE m.tasks[id]],
        !.active = m.active \ finished]

\* a _start_task that starts the process without recording it as active
_start_task_unregistered(m, process_id) ==
    [m EXCEPT
        !.worker = (process_id :> NewProcess) @@ m.worker,
        !.tasks = [m.tasks EXCEPT ![process_id].status = "running",
                                  ![process_id].completed = FALSE],
        !.processes = Append(m.processes, process_id)]

_start_task(m, process_id) ==
    [m EXCEPT
        !.worker = (process_id :> NewProcess) @@ m.worker,
        !.tasks = [m.tasks EXCEPT ![process_id].status = "running",
                                  ![process_id].completed = FALSE],
        !.processes = Append(m.processes, process_id),
        !.active = m.active \cup {process_id}]

\* the loop condition with <= for <
has_free_slot_inclusive(m) == Cardinality(m.active) <= max_processes

\* the loop condition of _try_start_next_tasks, without the pending test
has_free_slot(m) == Cardinality(m.active) < max_processes

\* pending_tasks.pop() for pending_tasks.pop(0): the last item
pop_index_last(pending) == Len(pending)

\* the index pending_tasks.pop(0) takes (from 1)
pop_index(pending) == 1

\* the list without its last item, whichever item is asked for
pop_last(pending, k) == SubSeq(pending, 1, Len(pending) - 1)

\* the list without its k-th item
pop(pending, k) ==
    [x \in 1..(Len(pending) - 1) |->
        IF x < k THEN pending[x] ELSE pending[x + 1]]

\* the while loop of _try_start_next_tasks
RECURSIVE start_loop(_)
start_loop(m) ==
    IF has_free_slot(m) /\ m.pending # <<>>
    THEN LET k == pop_index(m.pending) IN
         start_loop(_start_task([m EXCEPT !.pending = pop(m.pending, k)],
                                m.pending[k]))
    ELSE m

_try_start_next_tasks(m) == start_loop(_cleanup_finished_processes(m))

\* writes the manager record back to the fields
SetManager(m) ==
    /\ active_processes' = m.active
    /\ pending_tasks' = m.pending
    /\ processes' = m.processes
    /\ tasks' = m.tasks
    /\ worker' = m.worker

\* ------------------------------------------------------------------- Init
\* MultiprocessVideoManager.__init__ and SubtitleProcessor.__init__
Init ==
    /\ session = NoCall
    /\ processes = <<>>
    /\ active_processes = {}
    /\ pending_tasks = <<>>
    /\ progress_queue = <<>>
    /\ result_queue = <<>>
    /\ is_processing = FALSE
    /\ next_process_id = 0
    /\ tasks = <<>>
    /\ worker = <<>>
    /\ active_process_ids = {}
    /\ caller = "idle"
    /\ \E sc \in Scenarios :
         /\ inputs = sc.inputs
         /\ quota = sc.quota
         /\ max_processes \in sc.max_processes
    /\ results_put = [j \in Jobs |-> <<>>]
    /\ translator = NoCall
    /\ srt = NoCall
    /\ transcription = NoCall
    /\ loading = NoCall
    /\ threads = NoCall
    /\ cache = NoCall

\* ------------------------------------------------------- manager operations
\* the caller is not inside check_process_updates
CallerFree == caller \in {"idle", "all_complete", "stopped", "cleaned"}

\* submit_video, and the caller's bookkeeping of process_videos
submit_video ==
    /\ CallerFree
    /\ next_process_id < quota
    /\ LET task_info == [task_id |-> next_process_id, status |-> "pending",
                         completed |-> FALSE]
           m == [Manager EXCEPT
                   !.tasks = (next_process_id :> task_info) @@ @,
                   !.pending = Append(@, next_process_id)]
       IN SetManager(_try_start_next_tasks(m))
    /\ is_processing' = TRUE
    /\ next_process_id' = next_process_id + 1
    /\ active_process_ids' = active_process_ids \cup {next_process_id}
    /\ caller' = "idle"
    /\ UNCHANGED <<progress_queue, result_queue, env, results_put>>

\* get_progress_updates, called by check_process_updates, which then handles
\* every update (widget updates only); the get_nowait() loop takes every item
get_progress_updates ==
    /\ CallerFree
    /\ SetManager(_try_start_next_tasks(_cleanup_finished_processes(Manager)))
    /\ progress_queue' = <<>>
    /\ caller' = "polling"
    /\ UNCHANGED <<result_queue, is_processing, next_process_id,
                   active_process_ids, env, results_put>>

\* get_results, and the loop of check_process_updates over the results
get_results ==
    /\ caller = "polling"
    /\ result_queue' = <<>>
    /\ active_process_ids' =
           active_process_ids \
               {result_queue[k].process_id : k \in 1..Len(result_queue)}
    /\ caller' = "idle"
    /\ UNCHANGED <<processes, active_processes, pending_tasks, progress_queue,
                   is_processing, next_process_id, tasks, worker, env,
                   results_put>>

\* is_all_complete; caller records that it returned True
is_all_complete ==
    /\ CallerFree
    /\ IF processes = <<>> /\ pending_tasks = <<>>
       THEN /\ caller' = "all_complete"
            /\ UNCHANGED <<processes, active_processes, pending_tasks, tasks,
                           worker>>
       ELSE LET m == _try_start_next_tasks(_cleanup_finished_processes(Manager))
            IN /\ SetManager(m)
               /\ caller' = IF m.active = {} /\ m.pending = <<>>
                            THEN "all_complete" ELSE "idle"
    /\ UNCHANGED <<progress_queue, result_queue, is_processing,
                   next_process_id, active_process_ids, env, results_put>>

\* Process.terminate(), join(timeout=5) and kill(): the process is dead
\* without running any more of its code
terminate(p) == Ended("terminated")

\* the tasks stop_all drops from pending_tasks: pending_tasks.clear()
cleared(pending) == <<>>

\* stop_all, on the manager record
stop_all_processes(m) ==
    LET alive == {id \in m.active : is_alive(m.worker[id])} IN
    [m EXCEPT
        !.worker = [id \in DOMAIN m.worker |->
                       IF id \in alive THEN terminate(m.worker[id])
                       ELSE m.worker[id]],
        !.tasks = [id \in DOMAIN m.tasks |->
                      IF id \in alive
                      THEN [m.tasks[id] EXCEPT !.completed = TRUE]
                      ELSE m.tasks[id]],
        !.active = {},
        !.pending = cleared(m.pending)]

stop_all ==
    /\ CallerFree
    /\ SetManager(stop_all_processes(Manager))
    /\ is_processing' = FALSE
    /\ caller' = "stopped"
    /\ UNCHANGED <<progress_queue, result_queue, next_process_id,
                   active_process_ids, env, results_put>>

\* a cleanup that leaves the queue as it is
drained_not(q) == q

\* a "while not queue.empty(): get_nowait()" loop of cleanup: what it leaves
\* in the queue
drained(q) == <<>>

cleanup ==
    /\ CallerFree
    /\ SetManager(stop_all_processes(Manager))
    /\ is_processing' = FALSE
    /\ progress_queue' = drained(progress_queue)
    /\ result_queue' = drained(result_queue)
    /\ caller' = "cleaned"
    /\ UNCHANGED <<next_process_id, active_process_ids, env, results_put>>

\* ----------------------------------------------------------------- worker
\* the dictionaries report_progress and report_status put on the queue
\* (video_path, base_name and elapsed_time are functions of process_id)
ProgressEvent(j, p) ==
    [type |-> "progress", process_id |-> j, progress |-> p, status |-> ""]

StatusEvent(j, s) ==
    [type |-> "status", process_id |-> j, progress |-> -1, status |-> s]

\* Queue.put(item, block=False) raises queue.Full
queue_full(q) == Len(q) >= QueueCap

\* the queue after report_progress / report_status: on queue.Full the event
\* is passed over
put_nowait(q, ev) == IF queue_full(q) THEN q ELSE Append(q, ev)

\* a worker step ending in report_progress(p), the worker going on as w
report_progress(j, p, w) ==
    /\ progress_queue' = put_nowait(progress_queue, ProgressEvent(j, p))
    /\ worker' = [worker EXCEPT ![j] = [w EXCEPT !.progress = p]]

\* a worker step ending in report_status(s), the worker going on as w
report_status(j, s, w) ==
    /\ progress_queue' = put_nowait(progress_queue, StatusEvent(j, s))
    /\ worker' = [worker EXCEPT ![j] = w]

\* a worker step that reports nothing
silent(j, w) ==
    /\ UNCHANGED progress_queue
    /\ worker' = [worker EXCEPT ![j] = w]

\* what no step of a worker touches
WorkerFrame ==
    UNCHANGED <<processes, active_processes, pending_tasks, is_processing,
                next_process_id, tasks, active_process_ids, caller, env>>

\* what no step of process() touches
ProcessFrame == WorkerFrame /\ UNCHANGED <<result_queue, results_put>>

At(j, pc) == j \in DOMAIN worker /\ worker[j].pc = pc

To(j, pc) == [worker[j] EXCEPT !.pc = pc]

\* an except of process() that reports the failure and goes on with the
\* synthesis
Fail_and_go_on(j) ==
    report_status(j, "Processing failed",
                  [worker[j] EXCEPT !.pc = "st_synth", !.res = "error",
                                    !.i = 0, !.n = 0, !.len = 0])

\* the except of process(): report_status(error_msg), then raise
Fail(j) ==
    report_status(j, "Processing failed",
                  [worker[j] EXCEPT !.pc = "finally", !.res = "error",
                                    !.i = 0, !.n = 0, !.len = 0])

\* the dictionary put on the result queue if process() returned the same
\* for a job it skipped as for one it completed
Result_always_completed(j, res) ==
    IF res = "error"
    THEN [process_id |-> j, status |-> "error", result |-> "",
          reason |-> "", error |-> "Processing failed"]
    ELSE [process_id |-> j, status |-> "success", result |-> "completed",
          reason |-> "", error |-> ""]

\* the dictionary process_video_worker puts on the result queue: result is
\* the status of what process() returned, reason the reason it gives for
\* skipping
Result(j, res) ==
    IF res = "error"
    THEN [process_id |-> j, status |-> "error", result |-> "",
          reason |-> "", error |-> "Processing failed"]
    ELSE [process_id |-> j, status |-> "success", result |-> res,
          reason |-> IF res = "skipped" THEN "empty_subtitles" ELSE "",
          error |-> ""]

\* a worker step ending in result_queue.put(...) (blocking; a task puts at
\* most one result, so the queue never holds more than one item per task)
put(j, res) ==
    /\ result_queue' = Append(result_queue, Result(j, res))
    /\ results_put' = [results_put EXCEPT ![j] = Append(@, Result(j, res))]
    /\ silent(j, [worker[j] EXCEPT !.pc = "exiting", !.res = "none"])

\* process_video_worker up to its first operation on a queue: the first
\* report of process(), or, when the constructor of
\* VideoProcessorForMultiprocess raises, the error result of the worker's
\* own except
worker_start(j) ==
    /\ At(j, "start")
    /\ \/ /\ TRUE \in inputs.cache
          /\ report_status(j, "Extracting audio...",
                 [worker[j] EXCEPT !.pc = "p0", !.logger = "open",
                                   !.session = "open"])
          /\ UNCHANGED <<result_queue, results_put>>
       \/ /\ FALSE \in inputs.cache
          /\ put(j, "error")
    /\ WorkerFrame

\* process(): audio extraction, 0 -> 10
process_extract(j) ==
    /\ \/ At(j, "p0") /\ report_progress(j, 0, To(j, "extract"))
       \/ /\ At(j, "extract") /\ TRUE \in inputs.exists
          /\ report_progress(j, 10, To(j, "st_recog"))
       \* no ffmpeg, no video file, or the tool fails
       \/ At(j, "extract") /\ Fail(j)
       \/ /\ At(j, "st_recog")
          /\ report_status(j, "Recognizing speech...", To(j, "asr_init"))
    /\ ProcessFrame

\* progress_callback without the 20 the model load has reached
progress_callback_from_zero(current_chunk, total_chunks) ==
    Min(70, (current_chunk * 50) \div total_chunks)

\* progress_callback of generate_subtitles
progress_callback(current_chunk, total_chunks) ==
    Min(70, 20 + (current_chunk * 50) \div total_chunks)

\* generate_subtitles, with SpeechRecognizer.transcribe and
\* _transcribe_with_chunks as far as they call progress_callback
generate_subtitles(j) ==
    /\ \/ At(j, "asr_init") /\ report_progress(j, 20, To(j, "size_check"))
       \* SpeechRecognizer() raises
       \/ At(j, "asr_init") /\ Fail(j)
       \* audio below 1000 bytes: an empty SRT, return, then line 1038
       \/ /\ At(j, "size_check") /\ 0 \in inputs.chunks
          /\ report_progress(j, 70,
                 [worker[j] EXCEPT !.pc = "st_trans", !.n = 0])
       \* _load_model raises
       \/ At(j, "size_check") /\ inputs.chunks # {0} /\ Fail(j)
       \* transcribe has loaded the model and finds no audio file
       \/ /\ At(j, "size_check") /\ inputs.chunks # {0}
          /\ report_status(j, "Processing failed",
                 [worker[j] EXCEPT !.pc = "finally", !.res = "error",
                                   !.model = "loaded"])
       \/ /\ At(j, "size_check") /\ 1 \in inputs.chunks
          /\ report_progress(j, progress_callback(0, 1),
                 [worker[j] EXCEPT !.pc = "whole", !.n = 1,
                                   !.model = "loaded"])
       \/ /\ At(j, "whole")
          /\ report_progress(j, progress_callback(1, 1), To(j, "p70a"))
       \/ /\ At(j, "size_check")
          /\ \E total_chunks \in inputs.chunks \ {0, 1} :
               silent(j, [worker[j] EXCEPT !.pc = "chunk", !.i = 0,
                                           !.n = total_chunks,
                                           !.model = "loaded"])
       \* one iteration of the chunk loop: the callback, or an exception
       \* that skips it
       \/ /\ At(j, "chunk")
          /\ LET last == worker[j].i + 1 = worker[j].n
                 w == [worker[j] EXCEPT
                         !.i = IF last THEN 0 ELSE @ + 1,
                         !.n = IF last THEN 1 ELSE @,
                         !.pc = IF last THEN "p70a" ELSE "chunk"]
             IN \/ report_progress(j, progress_callback(worker[j].i + 1,
                                                        worker[j].n), w)
                \/ silent(j, w)
       \/ At(j, "p70a") /\ report_progress(j, 70, To(j, "write_srt"))
       \* to_srt and the write of the SRT, then line 1038
       \/ At(j, "write_srt") /\ report_progress(j, 70, To(j, "st_trans"))
       \/ At(j, "write_srt") /\ Fail(j)
    /\ ProcessFrame

\* the progress of _translate_openai_multiple_batches_multiprocess after
\* batch i (from 0) of n
openai_batch_progress(i, n) == Min(80, 72 + ((i + 1) * 8) \div n)

\* the progress of _batch_translate_with_google_multiprocess before batch
\* batch_count (from 1) of total_batches
google_batch_progress(batch_count, total_batches) ==
    Min(80, 72 + (batch_count * 8) \div total_batches)

\* the worker with the batches translated: the loop variables are dead
Translated(j) == [worker[j] EXCEPT !.pc = "write_bi", !.i = 0, !.n = 0]

\* process() lines 1040-1053 with translate_subtitles
translate_subtitles(j) ==
    /\ \/ /\ At(j, "st_trans")
          /\ report_status(j, "Translating subtitles...", To(j, "translate"))
       \* no cue in the SRT (always so for an audio below 1000 bytes)
       \/ /\ At(j, "translate")
          /\ report_status(j,
                 "Empty bilingual subtitles, skipping video synthesis",
                 To(j, "p100s"))
       \/ /\ At(j, "p100s")
          /\ report_progress(j, 100,
                 [worker[j] EXCEPT !.pc = "finally", !.res = "skipped",
                                   !.n = 0])
       \/ /\ At(j, "translate") /\ worker[j].n > 0
          /\ \E engine \in inputs.engine, batches \in inputs.batches :
               report_progress(j, 72,
                   [worker[j] EXCEPT
                      !.i = 0,
                      !.n = batches,
                      !.pc = IF engine = "OpenAI Translate"
                             THEN IF batches = 1 THEN "oa_single"
                                  ELSE "oa_batch"
                             ELSE "g_next"])
       \* a single request: its failure is raised to process()
       \/ At(j, "oa_single") /\ report_progress(j, 80, Translated(j))
       \/ At(j, "oa_single") /\ Fail(j)
       \* one iteration of the batch loop: progress, or a failed batch that
       \* keeps its original text and reports nothing
       \/ /\ At(j, "oa_batch")
          /\ LET last == worker[j].i + 1 = worker[j].n
                 w == [worker[j] EXCEPT
                         !.i = IF last THEN 0 ELSE @ + 1,
                         !.n = IF last THEN 0 ELSE @,
                         !.pc = IF last THEN "p80a" ELSE "oa_batch"]
             IN \/ report_progress(j, openai_batch_progress(worker[j].i,
                                                            worker[j].n), w)
                \/ silent(j, w)
       \* Google: progress before every batch but the last
       \/ /\ At(j, "g_next") /\ worker[j].i < worker[j].n - 1
          /\ report_progress(j, google_batch_progress(worker[j].i + 1,
                                                      worker[j].n),
                             To(j, "g_call"))
       \/ /\ At(j, "g_call")
          /\ silent(j, [worker[j] EXCEPT !.i = @ + 1, !.pc = "g_next"])
       \/ At(j, "g_call") /\ Fail(j)
       \/ /\ At(j, "g_next") /\ worker[j].i = worker[j].n - 1
          /\ report_progress(j, 80, Translated(j))
       \/ At(j, "g_next") /\ worker[j].i = worker[j].n - 1 /\ Fail(j)
       \/ At(j, "p80a") /\ report_progress(j, 80, To(j, "write_bi"))
       \* the write of the bilingual SRT, then line 1053
       \/ At(j, "write_bi") /\ report_progress(j, 80, To(j, "st_synth"))
       \/ At(j, "write_bi") /\ Fail(j)
    /\ ProcessFrame

\* burn_subtitles: current_progress after stderr_output has len characters
current_progress(len) == 80 + Min(20, len \div 100)

\* a burn_subtitles that reports current_progress as it is
burn_report_unclipped(cur) == cur

\* what burn_subtitles reports for current_progress
burn_report(cur) == Min(99, cur)

\* process() lines 1055-1065 with burn_subtitles
burn_subtitles(j) ==
    /\ \/ /\ At(j, "st_synth")
          /\ report_status(j, "Synthesizing video...", To(j, "burn_start"))
       \* no ffmpeg, no or empty subtitle file
       \/ At(j, "burn_start") /\ Fail(j)
       \/ /\ At(j, "burn_start")
          /\ silent(j, [worker[j] EXCEPT !.pc = "burn", !.i = 0, !.len = 0])
       \* one line of stderr
       \/ /\ At(j, "burn") /\ worker[j].i < inputs.lines
          /\ \E line \in LineLens :
               LET len == worker[j].len + line
                   w == [worker[j] EXCEPT !.i = @ + 1, !.len = len]
               IN IF current_progress(len) > 80
                  THEN report_progress(j, burn_report(current_progress(len)),
                                       w)
                  ELSE silent(j, w)
       \* the tool exits with a non-zero code, or leaves no output
       \/ At(j, "burn") /\ Fail(j)
       \* end of stderr, exit code 0 and an output file
       \/ /\ At(j, "burn")
          /\ report_progress(j, 100,
                 [worker[j] EXCEPT !.pc = "st_done", !.i = 0, !.len = 0])
       \/ /\ At(j, "st_done")
          /\ report_status(j, "Processing completed!",
                 [worker[j] EXCEPT !.pc = "finally", !.res = "completed"])
    /\ ProcessFrame

\* a finally of process() that closes the session only
finally_session_only(w) == [w EXCEPT !.pc = "post", !.session = "closed"]

\* lines 1071-1081: self.session.close() and self.logger.cleanup()
finally(w) ==
    [w EXCEPT !.pc = "post", !.session = "closed", !.logger = "closed"]

\* the finally of process(), on its return and on its raise
process_finally(j) ==
    /\ At(j, "finally")
    /\ silent(j, finally(worker[j]))
    /\ ProcessFrame

\* the result_queue.put(...) of process_video_worker for what process()
\* returned or raised
put_result(j) ==
    /\ At(j, "post")
    /\ put(j, worker[j].res)
    /\ WorkerFrame

\* the worker function returns and the process exits
worker_exit(j) ==
    /\ At(j, "exiting")
    /\ silent(j, Ended("exited"))
    /\ ProcessFrame

\* the process dies (killed by the system, a fault in native code): nothing
\* of its code runs any more
worker_dies(j) ==
    /\ j \in DOMAIN worker
    /\ is_alive(worker[j])
    /\ silent(j, Ended("died"))
    /\ ProcessFrame

\* a step of the worker's own code
worker_step(j) ==
    \/ worker_start(j)
    \/ process_extract(j)
    \/ generate_subtitles(j)
    \/ translate_subtitles(j)
    \/ burn_subtitles(j)
    \/ process_finally(j)
    \/ put_result(j)
    \/ worker_exit(j)

\* ------------------------------------------------------------ specification
Next ==
    \/ submit_video
    \/ get_progress_updates
    \/ get_results
    \/ is_all_complete
    \/ stop_all
    \/ cleanup
    \/ \E j \in Jobs : worker_start(j)
    \/ \E j \in Jobs : process_extract(j)
    \/ \E j \in Jobs : generate_subtitles(j)
    \/ \E j \in Jobs : translate_subtitles(j)
    \/ \E j \in Jobs : burn_subtitles(j)
    \/ \E j \in Jobs : process_finally(j)
    \/ \E j \in Jobs : put_result(j)
    \/ \E j \in Jobs : worker_exit(j)
    \/ \E j \in Jobs : worker_dies(j)

Spec == Init /\ [][Next]_vars

\* the specification of a caller that never stops the manager: it keeps
\* polling (the 100 ms timer of check_process_updates, the loop around
\* is_all_complete), and the system runs the worker processes: while one
\* is alive, one of them takes its next step
NextLive ==
    \/ submit_video
    \/ get_progress_updates
    \/ get_results
    \/ is_all_complete
    \/ \E j \in Jobs : worker_start(j)
    \/ \E j \in Jobs : process_extract(j)
    \/ \E j \in Jobs : generate_subtitles(j)
    \/ \E j \in Jobs : translate_subtitles(j)
    \/ \E j \in Jobs : burn_subtitles(j)
    \/ \E j \in Jobs : process_finally(j)
    \/ \E j \in Jobs : put_result(j)
    \/ \E j \in Jobs : worker_exit(j)
    \/ \E j \in Jobs : worker_dies(j)

FairSpec ==
    /\ Init
    /\ [][NextLive]_vars
    /\ SF_vars(is_all_complete)
    /\ WF_vars(get_results)
    /\ WF_vars(\E j \in Jobs : worker_step(j))

\* ------------------------------------------------------------------ claims
\* the tasks submitted so far
Submitted == 0..(next_process_id - 1)

\* the tasks admitted so far: those a process was started for
Admitted == DOMAIN worker

\* the tasks stop_all dropped from the pending list
Discarded == {j \in Submitted : j \notin Range(pending_tasks) /\ j \notin Admitted}

\* the worker processes that are running
Running == {j \in Admitted : is_alive(worker[j])}

\* C1: at every instant the active set, and with it the set of running
\* worker processes, has at most max_processes members.
C1_ActiveAtMostN ==
    /\ Cardinality(active_processes) <= max_processes
    /\ Running \subseteq active_processes

\* C1 witness: every slot is taken while a task waits
C1_Witness ==
    /\ Cardinality(active_processes) = max_processes
    /\ Running = active_processes
    /\ pending_tasks # <<>>

\* the tasks whose worker has ended and whose slot the manager has taken back
Over == {j \in Admitted : ~is_alive(worker[j]) /\ j \notin active_processes}

\* C2: every admitted task gets exactly one result on the result queue,
\* however its worker ends: never two, and one once the worker is over.
C2_ExactlyOneResult ==
    /\ \A j \in Jobs : Len(results_put[j]) <= 1
    /\ \A j \in Over : Len(results_put[j]) = 1

\* C4 as stated: whenever a task is admitted, every task submitted before it
\* has been admitted.
C4_AllEarlierAdmitted ==
    \A j \in Admitted : \A i \in 0..(j - 1) : i \in Admitted

\* C4 amended: every task submitted before an admitted task has been
\* admitted or was dropped from the pending list by stop_all() / cleanup();
\* no pending task is overtaken by a later submission.
C4_FifoAdmission ==
    /\ \A j \in Admitted : \A i \in 0..(j - 1) : i \in Admitted \cup Discarded
    /\ \A k \in 1..Len(pending_tasks) :
          /\ \A j \in Admitted : j < pending_tasks[k]
          /\ \A l \in 1..(k - 1) : pending_tasks[l] < pending_tasks[k]

\* C4 witness: a task was admitted after an earlier one had been dropped
\* from behind a running one
C4_Witness ==
    \E j \in Admitted : \E i \in Discarded : \E h \in Admitted : h < i /\ i < j

\* C5: the progress values a worker reports never decrease and lie in
\* 0..100, in every stage and on every path.
C5_ProgressMonotone ==
    [][\A j \in Admitted :
          (is_alive(worker'[j]) /\ worker'[j].progress # worker[j].progress)
          => /\ worker'[j].progress \in 0..100
             /\ worker'[j].progress >= worker[j].progress]_vars

\* C5 witness: a worker that has been through every stage reports 99 for a
\* burn whose estimate has reached 100
C5_Witness ==
    \E j \in Admitted :
        /\ worker[j].pc = "burn"
        /\ worker[j].progress = 99
        /\ current_progress(worker[j].len) = 100

\* C6: after stop_all() and cleanup() no worker runs, no task is pending and
\* both queues are empty.
C6_CleanAfterCleanup ==
    caller = "cleaned" =>
        /\ Running = {}
        /\ active_processes = {}
        /\ pending_tasks = <<>>
        /\ progress_queue = <<>>
        /\ result_queue = <<>>

\* C6 witness: cleanup has stopped a running worker and dropped a pending
\* task
C6_Witness ==
    /\ caller = "cleaned"
    /\ \E j \in Admitted : worker[j].pc = "terminated"
    /\ Discarded # {}

\* C7: every task stop_all() drops from the pending list gets a result with
\* status error and the detail "cancelled".
C7_CancelledForDiscarded ==
    \A j \in Discarded :
        \E k \in 1..Len(results_put[j]) :
            /\ results_put[j][k].status = "error"
            /\ results_put[j][k].error = "cancelled"

\* C8: a worker that crashed (its pipeline raised, or its process died) has,
\* once its slot is taken back, a result with status error and an error
\* string.
C8_CrashGivesFailed ==
    \A j \in Over :
        (worker[j].pc = "died" \/ (\E k \in 1..Len(results_put[j]) :
                                     results_put[j][k].status = "error"))
        => \E k \in 1..Len(results_put[j]) :
               /\ results_put[j][k].status = "error"
               /\ results_put[j][k].error # ""

\* C9: a worker never passes over an event because the queue is full: every
\* report_progress call appends its event to the progress queue.
C9_NoEventDropped ==
    [][\A j \in Admitted :
          (is_alive(worker'[j]) /\ worker'[j].progress # worker[j].progress)
          => progress_queue' =
                 Append(progress_queue,
                        ProgressEvent(j, worker'[j].progress))]_vars

\* C10: the caller never handles a progress or status event of a task whose
\* result it has handled already.
C10_NoEventAfterResult ==
    [][(caller # "polling" /\ caller' = "polling") =>
          \A k \in 1..Len(progress_queue) :
              progress_queue[k].process_id \in active_process_ids]_vars

\* C3: when stop_all() is never called, the caller keeps polling and every
\* started worker ends, every submitted task is admitted and comes to its
\* end, and is_all_complete() returns True: time and again the call returns
\* True with every task submitted so far admitted, over and completed.
C3_AllComplete ==
    []<>(/\ caller = "all_complete"
         /\ Over = Submitted
         /\ \A j \in Submitted : tasks[j].status = "completed")

\* C3 witness: is_all_complete() has returned True after more tasks than
\* slots were submitted and all of them are over
C3_Witness ==
    /\ caller = "all_complete"
    /\ next_process_id > max_processes
    /\ Over = Submitted
    /\ \A j \in Submitted : tasks[j].status = "completed"

\* ------------------------------------------------------- strings of Python
\* a str is the sequence of its characters
Whitespace == {" ", "\n", "\r", "\t"}

RECURSIVE lstrip(_)
lstrip(s) ==
    IF s # <<>> /\ Head(s) \in Whitespace THEN lstrip(Tail(s)) ELSE s

RECURSIVE rstrip(_)
rstrip(s) ==
    IF s # <<>> /\ s[Len(s)] \in Whitespace
    THEN rstrip(SubSeq(s, 1, Len(s) - 1))
    ELSE s

\* str.strip()
strip(s) == rstrip(lstrip(s))

\* sep in s
contains(s, sep) ==
    \E k \in 1..(Len(s) - Len(sep) + 1) : SubSeq(s, k, k + Len(sep) - 1) = sep

\* s.find(sep) when sep is in s, counting the characters from 1
find(s, sep) ==
    CHOOSE k \in 1..(Len(s) - Len(sep) + 1) :
        /\ SubSeq(s, k, k + Len(sep) - 1) = sep
        /\ \A h \in 1..(k - 1) : SubSeq(s, h, h + Len(sep) - 1) # sep

\* s.split(sep)
RECURSIVE split(_, _)
split(s, sep) ==
    IF ~contains(s, sep) THEN <<s>>
    ELSE LET k == find(s, sep)
         IN  <<SubSeq(s, 1, k - 1)>>
                 \o split(SubSeq(s, k + Len(sep), Len(s)), sep)

\* sep.join(parts)
RECURSIVE join(_, _)
join(sep, parts) ==
    IF parts = <<>> THEN <<>>
    ELSE IF Len(parts) = 1 THEN parts[1]
    ELSE parts[1] \o sep \o join(sep, Tail(parts))

\* ------------------------------------------------- the translation functions
\* '\n%%\n', '%%' and '\n' of _translate_openai_batch_multiprocess
openai_separator == <<"\n", "%", "%", "\n">>

percent_percent == <<"%", "%">>

newline == <<"\n">>

\* separator of _batch_translate_with_google_multiprocess
dashes == <<"-", "-", "-">>

google_separator ==
    newline \o dashes
        \o <<"S", "U", "B", "T", "I", "T", "L", "E", "_",
             "S", "E", "P", "A", "R", "A", "T", "O", "R">>
        \o dashes \o newline

\* the value a function returns, or that it raised
Returned(value) == [raised |-> FALSE, value |-> value]

Raised == [raised |-> TRUE, value |-> <<>>]

\* a parsing that only ever splits into lines
parse_lines_only(entries, translated_content) ==
    split(translated_content, newline)

\* the translated_texts _translate_openai_batch_multiprocess parses from
\* translated_content
parse_translated_content(entries, translated_content) ==
    IF Len(entries) = 1 THEN <<translated_content>>
    ELSE IF contains(translated_content, openai_separator)
    THEN split(translated_content, openai_separator)
    ELSE IF contains(translated_content, percent_percent)
    THEN split(translated_content, percent_percent)
    ELSE LET lines == split(translated_content, newline)
         IN  IF Len(lines) >= Len(entries)
             THEN SubSeq(lines, 1, Len(entries))
             ELSE <<translated_content>>

\* while len(translated_texts) < len(entries): append the original text
RECURSIVE pad_with_originals(_, _)
pad_with_originals(entries, translated_texts) ==
    IF Len(translated_texts) < Len(entries)
    THEN pad_with_originals(entries,
             Append(translated_texts, entries[Len(translated_texts) + 1].text))
    ELSE translated_texts

\* while len(translated_texts) < len(entries): append ""
RECURSIVE pad_with_empty(_, _)
pad_with_empty(entries, translated_texts) ==
    IF Len(translated_texts) < Len(entries)
    THEN pad_with_empty(entries, Append(translated_texts, <<>>))
    ELSE translated_texts

\* the entry both providers' functions build of an entry and its translation
bilingual(entry, translated_text) ==
    [id |-> entry.id, timestamp |-> entry.timestamp,
     text |-> entry.text \o newline \o translated_text]

\* the loop that builds translated_entries
translated_entries(entries, translated_texts) ==
    [i \in 1..Len(entries) |->
        LET translated_text == strip(translated_texts[i])
        IN  bilingual(entries[i],
                      IF translated_text = <<>> THEN entries[i].text
                      ELSE translated_text)]

\* _translate_openai_batch_multiprocess with the response the request got:
\* status is "200" or not, choices, finish_reason and message as the checks
\* of the function read them, content the text of the message
_translate_openai_batch_multiprocess(entries, response) ==
    IF response.status # "200" THEN Raised
    ELSE IF ~response.choices THEN Raised
    ELSE IF response.finish_reason = "content_filter" THEN Raised
    ELSE IF ~response.message THEN Raised
    ELSE LET translated_content == strip(response.content)
             translated_texts ==
                 SubSeq(pad_with_originals(entries,
                            parse_translated_content(entries, translated_content)),
                        1, Len(entries))
         IN  Returned(translated_entries(entries, translated_texts))

\* the entries of a batch that failed, as the except branch of
\* _translate_openai_multiple_batches_multiprocess builds them
failed_batch(batch) ==
    [k \in 1..Len(batch) |->
        [id |-> batch[k].id, timestamp |-> batch[k].timestamp,
         text |-> batch[k].text]]

\* sum(len(entry['text']) for entry in entries)
RECURSIVE total_chars(_)
total_chars(entries) ==
    IF entries = <<>> THEN 0
    ELSE Len(Head(entries).text) + total_chars(Tail(entries))

\* the batches _translate_openai_multiple_batches_multiprocess builds of the
\* entries left, batches and current_batch being what it has built so far
RECURSIVE openai_batches(_, _, _, _, _)
openai_batches(entries, max_chars, max_entries, batches, current_batch) ==
    IF entries = <<>>
    THEN IF current_batch # <<>> THEN Append(batches, current_batch)
         ELSE batches
    ELSE LET entry == Head(entries)
             entry_length == Len(entry.text)
         IN  IF /\ \/ Len(current_batch) >= max_entries
                   \/ total_chars(current_batch) + entry_length > max_chars
                /\ current_batch # <<>>
             THEN openai_batches(Tail(entries), max_chars, max_entries,
                                 Append(batches, current_batch), <<entry>>)
             ELSE openai_batches(Tail(entries), max_chars, max_entries,
                                 batches, Append(current_batch, entry))

\* max_chars of _batch_translate_with_google_multiprocess
google_max_chars == 4500

\* the batches _batch_translate_with_google_multiprocess makes of the entries
\* left, current_length being the sum of entry_length over current_batch
RECURSIVE google_batches(_, _, _)
google_batches(entries, batches, current_batch) ==
    IF entries = <<>>
    THEN IF current_batch # <<>> THEN Append(batches, current_batch)
         ELSE batches
    ELSE LET entry == Head(entries)
             entry_length == Len(entry.text) + Len(google_separator)
             current_length ==
                 total_chars(current_batch)
                     + Len(current_batch) * Len(google_separator)
         IN  IF /\ current_length + entry_length > google_max_chars
                /\ current_batch # <<>>
             THEN google_batches(Tail(entries),
                                 Append(batches, current_batch), <<entry>>)
             ELSE google_batches(Tail(entries), batches,
                                 Append(current_batch, entry))

\* _translate_google_batch_multiprocess with what translator.translate gave:
\* raised is that it raised, text the string it returned (None as "")
_translate_google_batch_multiprocess(entries, response) ==
    IF response.raised THEN Raised
    ELSE IF response.text = <<>> THEN Raised
    ELSE LET parts == split(response.text, google_separator)
             translated_texts ==
                 IF Len(parts) # Len(entries)
                 THEN SubSeq(pad_with_empty(entries, parts), 1, Len(entries))
                 ELSE parts
         IN  Returned(translated_entries(entries, translated_texts))

\* --------------------------------------------- one call of the translation
\* the manager's and the workers' variables
manager_vars ==
    <<processes, active_processes, pending_tasks, progress_queue,
      result_queue, is_processing, next_process_id, max_processes, tasks,
      worker, active_process_ids, caller, inputs, quota, results_put>>

\* the manager as constructed, with nothing to submit
AtRest ==
    /\ processes = <<>>
    /\ active_processes = {}
    /\ pending_tasks = <<>>
    /\ progress_queue = <<>>
    /\ result_queue = <<>>
    /\ is_processing = FALSE
    /\ next_process_id = 0
    /\ tasks = <<>>
    /\ worker = <<>>
    /\ active_process_ids = {}
    /\ caller = "idle"
    /\ inputs = UnwritableCache
    /\ quota = 0
    /\ max_processes = 1
    /\ results_put = [j \in Jobs |-> <<>>]

\* the decimal digits, to write the numbers of the cues with
digits == <<"0", "1", "2", "3", "4", "5", "6", "7", "8", "9">>

\* the timestamp line of the k-th cue: it starts at second k and ends at k + 1
timestamp_line(k) ==
    <<"0", digits[k + 1], " ", "-", "-", ">", " ", "0", digits[k + 2]>>

\* the texts of the cues, of one and of two characters
Texts == {<<"a">>, <<"b", "c">>}

\* the entries translate_subtitles parsed from a subtitle file: one to
\* MaxCues cues numbered from 1
ParsedEntries ==
    UNION {{[k \in 1..n |->
                [id |-> k, timestamp |-> timestamp_line(k), text |-> text[k]]]
            : text \in [1..n -> Texts]} : n \in 1..MaxCues}

\* max_chars_per_batch and max_entries_per_batch of api_settings: the
\* defaults of config.py, a small max_chars_per_batch, one entry per batch
Limits ==
    {[max_chars |-> 1200, max_entries |-> 100],
     [max_chars |-> 2, max_entries |-> 100],
     [max_chars |-> 1200, max_entries |-> 1]}

\* the parts a provider can answer with: nothing, or a translation after a
\* blank
Parts == {<<>>, <<" ", "z">>}

\* up to one part more than there are cues
MaxParts == MaxCues + 1

PartLists == UNION {[1..n -> Parts] : n \in 0..MaxParts}

\* what the chat completion request can come back with: an error status, a
\* body without choices, a filtered choice, a choice without message, or a
\* message whose content holds parts between '\n%%\n', '%%' or '\n'
OpenAIResponses ==
    {[status |-> "500", choices |-> FALSE, finish_reason |-> "none",
      message |-> FALSE, content |-> <<>>],
     [status |-> "200", choices |-> FALSE, finish_reason |-> "none",
      message |-> FALSE, content |-> <<>>],
     [status |-> "200", choices |-> TRUE, finish_reason |-> "content_filter",
      message |-> TRUE, content |-> <<>>],
     [status |-> "200", choices |-> TRUE, finish_reason |-> "stop",
      message |-> FALSE, content |-> <<>>]}
    \cup {[status |-> "200", choices |-> TRUE, finish_reason |-> "stop",
           message |-> TRUE, content |-> join(sep, parts)]
          : sep \in {openai_separator, percent_percent, newline},
            parts \in PartLists}

\* what GoogleTranslator.translate can do: raise, or return a text that
\* holds parts between the separator, kept or stripped of its line breaks
GoogleResponses ==
    {[raised |-> TRUE, text |-> <<>>]}
    \cup {[raised |-> FALSE, text |-> join(sep, parts)]
          : sep \in {google_separator, strip(google_separator)},
            parts \in PartLists}

\* what no step of the translation touches
TranslateFrame ==
    UNCHANGED <<manager_vars, srt, transcription, loading, threads,
               cache, session>>

\* translate_subtitles has parsed the entries and reported progress 72
TranslateInit ==
    /\ session = NoCall
    /\ AtRest
    /\ srt = NoCall
    /\ transcription = NoCall
    /\ loading = NoCall
    /\ threads = NoCall
    /\ cache = NoCall
    /\ \E engine \in Engines, entries \in ParsedEntries, limits \in Limits :
         /\ engine = "Google Translate" => limits.max_entries = 100
         /\ engine = "Google Translate" => limits.max_chars = 1200
         /\ translator =
              [pc |-> "call", engine |-> engine, entries |-> entries,
               max_chars |-> limits.max_chars,
               max_entries |-> limits.max_entries,
               batches |-> <<>>, i |-> 0, all_translated |-> <<>>,
               failed |-> {}]

\* the ids of the entries of a batch
ids(batch) == {batch[k].id : k \in 1..Len(batch)}

\* _batch_translate_with_openai_multiprocess: one request for all entries
\* when they fit in a batch, whose exception it raises again; the batches
\* otherwise
_batch_translate_with_openai_multiprocess ==
    /\ translator.pc = "call"
    /\ translator.engine = "OpenAI Translate"
    /\ LET entries == translator.entries
       IN  IF /\ total_chars(entries) <= translator.max_chars
              /\ Len(entries) <= translator.max_entries
           THEN \E response \in OpenAIResponses :
                  LET r == _translate_openai_batch_multiprocess(entries, response)
                  IN  translator' =
                        IF r.raised
                        THEN [translator EXCEPT !.pc = "raised",
                                                !.failed = ids(entries)]
                        ELSE [translator EXCEPT !.pc = "returned",
                                                !.all_translated = r.value]
           ELSE translator' =
                  [translator EXCEPT
                     !.pc = "batches",
                     !.batches = openai_batches(entries, translator.max_chars,
                                     translator.max_entries, <<>>, <<>>),
                     !.i = 1]
    /\ TranslateFrame

\* _translate_openai_multiple_batches_multiprocess: the request of batch i;
\* when it raises the entries of the batch are kept as they are
_translate_openai_multiple_batches_multiprocess ==
    /\ translator.pc = "batches"
    /\ translator.engine = "OpenAI Translate"
    /\ LET batch == translator.batches[translator.i]
       IN  \E response \in OpenAIResponses :
             LET r == _translate_openai_batch_multiprocess(batch, response)
             IN  translator' =
                   [translator EXCEPT
                      !.pc = IF translator.i = Len(translator.batches)
                             THEN "returned" ELSE "batches",
                      !.i = translator.i + 1,
                      !.all_translated =
                          @ \o (IF r.raised THEN failed_batch(batch)
                                ELSE r.value),
                      !.failed = IF r.raised THEN @ \cup ids(batch) ELSE @]
    /\ TranslateFrame

\* _batch_translate_with_google_multiprocess: the batches, then the call of
\* batch i; when it raises the function raises
_batch_translate_with_google_multiprocess ==
    /\ translator.pc \in {"call", "batches"}
    /\ translator.engine = "Google Translate"
    /\ LET batches == IF translator.pc = "call"
                      THEN google_batches(translator.entries, <<>>, <<>>)
                      ELSE translator.batches
           i == IF translator.pc = "call" THEN 1 ELSE translator.i
           batch == batches[i]
       IN  \E response \in GoogleResponses :
             LET r == _translate_google_batch_multiprocess(batch, response)
             IN  translator' =
                   IF r.raised
                   THEN [translator EXCEPT !.pc = "raised",
                                           !.batches = batches,
                                           !.failed = @ \cup ids(batch)]
                   ELSE [translator EXCEPT
                           !.pc = IF i = Len(batches) THEN "returned"
                                  ELSE "batches",
                           !.batches = batches,
                           !.i = i + 1,
                           !.all_translated = @ \o r.value]
    /\ TranslateFrame

TranslateNext ==
    \/ _batch_translate_with_openai_multiprocess
    \/ _translate_openai_multiple_batches_multiprocess
    \/ _batch_translate_with_google_multiprocess

TranslateSpec == TranslateInit /\ [][TranslateNext]_vars

\* s starts with prefix
StartsWith(s, prefix) ==
    /\ Len(s) >= Len(prefix)
    /\ SubSeq(s, 1, Len(prefix)) = prefix

\* the call of the engine's function is over
CallOver == translator.pc \in {"returned", "raised"}

\* C11: every translation call, with either provider, gives an output with
\* exactly one cue per input cue, in the same order, with the same index and
\* timestamp and a text that starts with the cue's original text, whatever
\* parts the provider returns and also when it fails for a batch.
C11_OneCuePerInputCue ==
    CallOver =>
        /\ translator.pc = "returned"
        /\ Len(translator.all_translated) = Len(translator.entries)
        /\ \A k \in 1..Len(translator.entries) :
             /\ translator.all_translated[k].id = translator.entries[k].id
             /\ translator.all_translated[k].timestamp
                    = translator.entries[k].timestamp
             /\ StartsWith(translator.all_translated[k].text,
                           translator.entries[k].text)

\* C12: when a batch request to the LLM provider fails the cues of that
\* batch are in the output with their original text only, the cues of the
\* other batches are translated, and the call returns (the job goes on),
\* with one batch and with several.
C12_FailedLlmBatchFallsBack ==
    (CallOver /\ translator.engine = "OpenAI Translate"
              /\ translator.failed # {}) =>
        /\ translator.pc = "returned"
        /\ Len(translator.all_translated) = Len(translator.entries)
        /\ \A k \in 1..Len(translator.entries) :
             IF translator.entries[k].id \in translator.failed
             THEN translator.all_translated[k].text = translator.entries[k].text
             ELSE StartsWith(translator.all_translated[k].text,
                             translator.entries[k].text \o newline)

\* C13: when a batch call to the free provider fails, by an error or an
\* empty response, the cues of the batch fall back to their original text
\* and the call returns (the job goes on to the burn stage).
C13_FailedFreeBatchFallsBack ==
    (CallOver /\ translator.engine = "Google Translate"
              /\ translator.failed # {}) =>
        /\ translator.pc = "returned"
        /\ \A k \in 1..Len(translator.entries) :
             translator.entries[k].id \in translator.failed =>
                 /\ k <= Len(translator.all_translated)
                 /\ StartsWith(translator.all_translated[k].text,
                               translator.entries[k].text)

StageOf(w) ==
    CASE w.pc = "start" -> 0
      [] w.pc \in {"p0", "extract"} -> 1
      [] w.pc \in {"st_recog", "asr_init", "size_check", "whole", "chunk",
                   "p70a", "write_srt"} -> 2
      [] w.pc \in {"st_trans", "translate", "p100s", "oa_single", "oa_batch",
                   "g_next", "g_call", "p80a", "write_bi"} -> 3
      [] w.pc \in {"st_synth", "burn_start", "burn", "st_done"} -> 4
      [] OTHER -> 5

\* C15: within a job the stages run in the order Extract, Transcribe,
\* Translate, Burn: a worker enters a stage only from the stage before it
\* and without a failure, and once process() is over, by a failure or not,
\* it enters no stage again.
C15_StagesInOrder ==
    [][\A j \in DOMAIN worker :
         LET stage == StageOf(worker[j])
             next_stage == StageOf(worker'[j])
         IN  /\ next_stage \in {stage, stage + 1, 5}
             /\ (next_stage = stage + 1 /\ next_stage < 5) =>
                    worker'[j].res = "none"
             /\ worker[j].res = "error" => next_stage = 5]_vars

\* C15 witness: a job has been through the four stages
C15_Witness == \E j \in DOMAIN worker : worker[j].pc = "st_done"

\* the state of job j for a manager with the given pending list, active set
\* and number of submitted jobs
JobStateOf(pending, active, submitted, j) ==
    IF j >= submitted THEN "None"
    ELSE IF j \in Range(pending) THEN "Pending"
    ELSE IF j \in active THEN "Running"
    ELSE "Terminal"

isdigit(line) ==
    /\ line # <<>>
    /\ \A k \in 1..Len(line) : line[k] \in Range(digits)

\* the value of a decimal digit
digit_value(c) == CHOOSE d \in 0..9 : digits[d + 1] = c

\* int(line) for a line of digits
RECURSIVE int(_)
int(line) ==
    IF Len(line) = 1 THEN digit_value(line[1])
    ELSE 10 * int(SubSeq(line, 1, Len(line) - 1)) + digit_value(line[Len(line)])

\* f"{n}" for a number that is not negative
RECURSIVE str(_)
str(n) ==
    IF n < 10 THEN <<digits[n + 1]>>
    ELSE str(n \div 10) \o <<digits[(n % 10) + 1]>>

\* '-->'
arrow == <<"-", "-", ">">>

\* the variables of the parsing loop before the first line; current_id is
\* -1 for None
parser_start ==
    [entries |-> <<>>, current_id |-> -1, current_timestamp |-> <<>>,
     current_text |-> <<>>, parsing_state |-> "id"]

\* current_id is not None and current_timestamp and current_text
entry_complete(st) ==
    /\ st.current_id # -1
    /\ st.current_timestamp # <<>>
    /\ st.current_text # <<>>

\* the entry the parser appends
current_entry(st) ==
    [id |-> st.current_id, timestamp |-> st.current_timestamp,
     text |-> join(newline, st.current_text)]

\* the entries with the entry under way flushed, if it is complete
flushed(st) ==
    IF entry_complete(st) THEN Append(st.entries, current_entry(st))
    ELSE st.entries

\* one iteration of "for line in lines"
parse_line(st, raw) ==
    LET line == strip(raw)
    IN  IF line = <<>>
        THEN [parser_start EXCEPT !.entries = flushed(st)]
        ELSE IF st.parsing_state = "id" /\ isdigit(line)
        THEN [st EXCEPT !.current_id = int(line),
                        !.parsing_state = "timestamp"]
        ELSE IF st.parsing_state = "timestamp" /\ contains(line, arrow)
        THEN [st EXCEPT !.current_timestamp = line, !.parsing_state = "text"]
        ELSE IF st.parsing_state = "text"
        THEN [st EXCEPT !.current_text = Append(@, line)]
        ELSE st

\* the loop over the lines
RECURSIVE parse_lines(_, _)
parse_lines(st, lines) ==
    IF lines = <<>> THEN st
    ELSE parse_lines(parse_line(st, Head(lines)), Tail(lines))

\* the entries of a parser that forgets the entry under way at the end of
\* the file
parsed_entries_without_flush(lines) == parse_lines(parser_start, lines).entries

\* the entries translate_subtitles parses from the lines of the file
parsed_entries(lines) == flushed(parse_lines(parser_start, lines))

\* list.sort(key=lambda x: x['id']): entry put into a sorted list behind
\* the entries whose id is not greater
RECURSIVE insert_by_id(_, _)
insert_by_id(sorted, entry) ==
    IF sorted = <<>> THEN <<entry>>
    ELSE IF Head(sorted).id <= entry.id
    THEN <<Head(sorted)>> \o insert_by_id(Tail(sorted), entry)
    ELSE <<entry>> \o sorted

RECURSIVE sort_by_id(_)
sort_by_id(entries) ==
    IF entries = <<>> THEN <<>>
    ELSE insert_by_id(sort_by_id(SubSeq(entries, 1, Len(entries) - 1)),
                      entries[Len(entries)])

\* the final subtitle content of the entries, in the order given
RECURSIVE translated_content(_)
translated_content(entries) ==
    IF entries = <<>> THEN <<>>
    ELSE str(Head(entries).id) \o newline \o Head(entries).timestamp
             \o newline \o Head(entries).text \o newline \o newline
             \o translated_content(Tail(entries))

\* index lines a subtitle file can have, with the number each one writes and
\* that number's plain decimal form
Indices ==
    {[line |-> <<"1">>, value |-> 1, decimal |-> <<"1">>],
     [line |-> <<"0", "2">>, value |-> 2, decimal |-> <<"2">>],
     [line |-> <<"1", "0">>, value |-> 10, decimal |-> <<"1", "0">>]}

\* text lines a cue can have, with what is left of each when the blanks
\* around it are taken off: a word, and a number between blanks
TextLines ==
    {[line |-> <<"a">>, trimmed |-> <<"a">>],
     [line |-> <<" ", "7", " ">>, trimmed |-> <<"7">>]}

\* a cue has one or two text lines
TextLineCounts == {1, 2}

\* the cues of a well-formed subtitle file: one to MaxCues cues, each with an
\* index line, a timestamp line and its text lines
WellFormedCues ==
    UNION {[1..n -> [index : Indices,
                     text_lines : UNION {[1..c -> TextLines]
                                         : c \in TextLineCounts}]]
           : n \in 1..MaxCues}

\* how the file ends its lines, and how it ends: with the last text line
\* unterminated, terminated, or followed by a blank line
Layouts ==
    [eol : {<<"\n">>, <<"\r", "\n">>}, ending : {"text", "eol", "blank"}]

\* the lines of cue k of the file, as readlines() gives them
cue_lines(cues, k, eol) ==
    <<cues[k].index.line \o eol, timestamp_line(k) \o eol>>
        \o [c \in 1..Len(cues[k].text_lines) |->
               cues[k].text_lines[c].line \o eol]

\* the lines of the cues from k on, with a blank line between two cues
RECURSIVE file_lines(_, _, _)
file_lines(cues, k, eol) ==
    IF k = Len(cues) THEN cue_lines(cues, k, eol)
    ELSE cue_lines(cues, k, eol) \o <<eol>> \o file_lines(cues, k + 1, eol)

\* the lines readlines() gives for the cues in the layout
readlines(cues, layout) ==
    LET lines == file_lines(cues, 1, layout.eol)
        last == lines[Len(lines)]
    IN  CASE layout.ending = "eol" -> lines
          [] layout.ending = "blank" -> Append(lines, layout.eol)
          [] layout.ending = "text" ->
                 [lines EXCEPT ![Len(lines)] =
                     SubSeq(last, 1, Len(last) - Len(layout.eol))]

\* what no step on the subtitle file touches
SrtFrame ==
    UNCHANGED <<manager_vars, translator, transcription, loading, threads,
               cache, session>>

\* a well-formed subtitle file has been read
SrtInit ==
    /\ session = NoCall
    /\ AtRest
    /\ translator = NoCall
    /\ transcription = NoCall
    /\ loading = NoCall
    /\ threads = NoCall
    /\ cache = NoCall
    /\ \E cues \in WellFormedCues, layout \in Layouts :
         srt = [pc |-> "read", cues |-> cues,
                lines |-> readlines(cues, layout),
                entries |-> <<>>, content |-> <<>>]

\* translate_subtitles, lines 1159-1196: the entries of the lines
parse_subtitles ==
    /\ srt.pc = "read"
    /\ srt' = [srt EXCEPT !.pc = "parsed",
                          !.entries = parsed_entries(srt.lines)]
    /\ SrtFrame

\* translate_subtitles, lines 1216-1224: the entries sorted and written out
write_subtitles ==
    /\ srt.pc = "parsed"
    /\ srt' = [srt EXCEPT
                 !.pc = "written",
                 !.content = translated_content(sort_by_id(srt.entries))]
    /\ SrtFrame

SrtNext ==
    \/ parse_subtitles
    \/ write_subtitles

SrtSpec == SrtInit /\ [][SrtNext]_vars

\* the cues a well-formed file holds, as a reader of the file sees them:
\* the number of the index line, the timestamp line, the text lines without
\* the blanks around them
CuesOfFile(cues) ==
    [k \in 1..Len(cues) |->
        [index |-> cues[k].index.decimal,
         timestamp |-> timestamp_line(k),
         text_lines |-> [c \in 1..Len(cues[k].text_lines) |->
                            cues[k].text_lines[c].trimmed]]]

\* the blocks of lines of the written content, separated by blank lines
BlocksOf(content) ==
    LET parts == split(content, newline \o newline)
    IN  [k \in 1..(Len(parts) - 1) |-> split(parts[k], newline)]

\* the cues of the written content: every block is an index line, a
\* timestamp line and text lines
CuesOfContent(content) ==
    [k \in 1..Len(BlocksOf(content)) |->
        LET block == BlocksOf(content)[k]
        IN  [index |-> block[1],
             timestamp |-> IF Len(block) >= 2 THEN block[2] ELSE <<>>,
             text_lines |-> SubSeq(block, 3, Len(block))]]

\* the two sequences hold the same items the same number of times
SameItems(a, b) ==
    /\ Len(a) = Len(b)
    /\ \A x \in Range(a) \cup Range(b) :
         Cardinality({k \in 1..Len(a) : a[k] = x})
             = Cardinality({k \in 1..Len(b) : b[k] = x})

\* C18: a well-formed subtitle file, parsed by the parser of the translate
\* stage and written out again, gives the same number of cues, with the same
\* indices, timestamps and trimmed text lines, whether or not the file ends
\* with a blank line.
C18_SrtRoundTrip ==
    /\ srt.pc \in {"parsed", "written"} => Len(srt.entries) = Len(srt.cues)
    /\ srt.pc = "written" =>
           SameItems(CuesOfContent(srt.content), CuesOfFile(srt.cues))

\* C18 witness: a file of two cues whose last text line is not terminated
\* and whose first cue has two text lines has been parsed and written
C18_Witness ==
    /\ srt.pc = "written"
    /\ Len(srt.cues) = 2
    /\ Len(srt.cues[1].text_lines) = 2
    /\ srt.lines[Len(srt.lines)] = srt.cues[2].text_lines[1].line
    /\ Len(CuesOfContent(srt.content)) = 2

\* ------------------------------------------- transcription of a long audio
\* chunk_duration and overlap_duration generate_subtitles passes, in seconds
chunk_duration == 120

overlap_duration == 15

step_duration == chunk_duration - overlap_duration

\* max(1, math.ceil((audio_duration - overlap_duration) / step_duration))
total_chunks(audio_duration) ==
    LET ceil == (audio_duration - overlap_duration + step_duration - 1)
                    \div step_duration
    IN  IF ceil > 1 THEN ceil ELSE 1

\* the durations of audios longer than chunk_duration that make two to
\* MaxChunks chunks, with a short and with a full last chunk
AudioDurations ==
    {step_duration * n + d :
        n \in 1..(MaxChunks - 1), d \in {overlap_duration + 1, chunk_duration}}

\* the times, from the start of a chunk, a sentence can start or end at:
\* just inside the overlap, at its end, and at the end of a full chunk
SentenceTimes == {overlap_duration - 1, overlap_duration, chunk_duration}

\* the model finds up to two sentences in a chunk
SentenceCounts == 0..2

\* what the model can return for a chunk of the given length: sentences that
\* lie within the chunk, each ending no earlier than it starts, ordered by
\* their start; a sentence that has a length has a token at its start and
\* one up to its end
ChunkResults(length) ==
    LET times == {t \in SentenceTimes : t <= length}
        sentences ==
            {[start |-> t[1], end |-> t[2],
              tokens |-> IF t[1] = t[2] THEN <<>>
                         ELSE <<[start |-> t[1], end |-> t[1]],
                                [start |-> t[1], end |-> t[2]]>>] :
                 t \in {u \in times \X times : u[1] <= u[2]}}
    IN  {r \in UNION {[1..n -> sentences] : n \in SentenceCounts} :
            \A k \in 1..(Len(r) - 1) : r[k].start <= r[k + 1].start}

\* a merge that leaves the tokens at the times they have within the chunk
adjusted_sentence_only(sentence, time_offset) ==
    [start |-> sentence.start + time_offset,
     end |-> sentence.end + time_offset,
     tokens |-> sentence.tokens]

\* lines 495-524: AlignedToken(start=token.start + time_offset, ...) for
\* every token and AlignedSentence(start=sentence.start + time_offset, ...)
adjusted_sentence(sentence, time_offset) ==
    [start |-> sentence.start + time_offset,
     end |-> sentence.end + time_offset,
     tokens |-> [k \in 1..Len(sentence.tokens) |->
                    [start |-> sentence.tokens[k].start + time_offset,
                     end |-> sentence.tokens[k].end + time_offset]]]

\* a merge that keeps the sentences of the overlap too
keeps_all(adjusted, time_offset, overlap) == TRUE

\* the test of _merge_chunk_result for appending an adjusted sentence
keeps(adjusted, time_offset, overlap) ==
    time_offset = 0 \/ adjusted.start >= time_offset + overlap

\* all_sentences after _merge_chunk_result
RECURSIVE _merge_chunk_result(_, _, _, _)
_merge_chunk_result(sentences, all_sentences, time_offset, overlap) ==
    IF sentences = <<>> THEN all_sentences
    ELSE LET adjusted == adjusted_sentence(Head(sentences), time_offset)
         IN  _merge_chunk_result(Tail(sentences),
                 IF keeps(adjusted, time_offset, overlap)
                 THEN Append(all_sentences, adjusted) ELSE all_sentences,
                 time_offset, overlap)

\* SubtitleFormatter.format_timestamp: hours, minutes, seconds, milliseconds
format_timestamp(seconds) ==
    LET milliseconds == seconds * 1000
    IN  <<milliseconds \div 3600000,
          (milliseconds % 3600000) \div 60000,
          (milliseconds % 60000) \div 1000,
          milliseconds % 1000>>

\* SubtitleFormatter.to_srt without highlight_words: index, start_time and
\* end_time of every entry
to_srt(sentences) ==
    [k \in 1..Len(sentences) |->
        [entry_index |-> k,
         start_time |-> format_timestamp(sentences[k].start),
         end_time |-> format_timestamp(sentences[k].end)]]

\* what no step of the transcription touches
TranscribeFrame ==
    UNCHANGED <<manager_vars, translator, srt, loading, threads,
               cache, session>>

\* transcribe has found the audio longer than chunk_duration
TranscribeInit ==
    /\ session = NoCall
    /\ AtRest
    /\ translator = NoCall
    /\ srt = NoCall
    /\ loading = NoCall
    /\ threads = NoCall
    /\ cache = NoCall
    /\ \E audio_duration \in AudioDurations :
         transcription =
             [pc |-> "chunks", audio_duration |-> audio_duration,
              chunk_idx |-> 0, all_sentences |-> <<>>, srt_content |-> <<>>,
              outcomes |-> <<>>, chunk_result |-> <<>>]

\* what can come of one chunk: _extract_audio_chunk returns None (lines
\* 469-481), self._model.transcribe raises and _transcribe_chunk returns
\* the empty result (lines 384-387), or the chunk is transcribed
ChunkOutcomes == {"no_chunk", "failed", "transcribed"}

\* a loop that gives up at the first chunk that fails
loop_pc_abort(outcome, last) ==
    IF last \/ outcome # "transcribed" THEN "result" ELSE "chunks"

\* lines 406 and 439-443: the loop goes on to the next chunk whatever came
\* of this one, and after the last chunk the result is built
loop_pc(outcome, last) == IF last THEN "result" ELSE "chunks"

\* one iteration of the loop of _transcribe_with_chunks: the chunk is
\* extracted, transcribed and merged, or it is skipped (no chunk file), or
\* the empty result of a failed transcription is merged
_transcribe_with_chunks ==
    /\ transcription.pc = "chunks"
    /\ LET chunk_idx == transcription.chunk_idx
           start_time == chunk_idx * step_duration
           end_time == Min(start_time + chunk_duration,
                           transcription.audio_duration)
           last == chunk_idx + 1 = total_chunks(transcription.audio_duration)
       IN  \E outcome \in ChunkOutcomes :
           \E chunk_result \in
                  IF outcome = "transcribed"
                  THEN ChunkResults(end_time - start_time) ELSE {<<>>} :
             transcription' =
                 [transcription EXCEPT
                    !.pc = loop_pc(outcome, last),
                    !.chunk_idx = chunk_idx + 1,
                    !.outcomes = Append(@, outcome),
                    !.chunk_result = chunk_result,
                    !.all_sentences =
                        IF outcome = "no_chunk" THEN @
                        ELSE _merge_chunk_result(chunk_result, @, start_time,
                                 IF chunk_idx > 0 THEN overlap_duration
                                 ELSE 0)]
    /\ TranscribeFrame

\* generate_subtitles, line 1139: the SRT of the result
write_srt ==
    /\ transcription.pc = "result"
    /\ transcription' =
           [transcription EXCEPT
              !.pc = "srt",
              !.srt_content = to_srt(transcription.all_sentences)]
    /\ TranscribeFrame

TranscribeNext ==
    \/ _transcribe_with_chunks
    \/ write_srt

TranscribeSpec == TranscribeInit /\ [][TranscribeNext]_vars

\* timestamp a is not later than timestamp b: they are equal, or at the
\* first field they differ in a has the smaller value
NotLater(a, b) ==
    \E k \in 1..(Len(a) + 1) :
        /\ \A h \in 1..(k - 1) : a[h] = b[h]
        /\ k = Len(a) + 1 \/ a[k] < b[k]

\* C19: in the SRT written for a transcription every cue starts no later
\* than it ends and no cue starts earlier than the cue before it, also from
\* one chunk to the next, when each chunk's sentences are ordered and lie
\* within the chunk.
C19_SrtTimesOrdered ==
    transcription.pc = "srt" =>
        /\ \A k \in 1..Len(transcription.srt_content) :
             NotLater(transcription.srt_content[k].start_time,
                      transcription.srt_content[k].end_time)
        /\ \A k \in 1..(Len(transcription.srt_content) - 1) :
             NotLater(transcription.srt_content[k].start_time,
                      transcription.srt_content[k + 1].start_time)

\* C19 witness: the SRT of an audio of MaxChunks chunks has a cue that ends
\* the first chunk and after it a cue of a later chunk
C19_Witness ==
    /\ transcription.pc = "srt"
    /\ total_chunks(transcription.audio_duration) = MaxChunks
    /\ \E k \in 1..(Len(transcription.srt_content) - 1) :
         /\ transcription.all_sentences[k].start = chunk_duration
         /\ transcription.all_sentences[k + 1].start >= chunk_duration

\* ------------------------------------- worker processes loading the model
\* loading.pc[p] is where process p is in _load_model, loading.holder the
\* process whose open lock file holds the flock (-1: none), loading.cached
\* whether the model files are in the cache
Unlocked == -1

\* the processes inside from_pretrained, which downloads the model when it
\* is not cached and loads it
InLoadSection ==
    {p \in Jobs : loading.pc[p] \in {"loading", "loading_after_wait",
                                     "fallback"}}

\* process p goes on at pc
LoaderAt(p, pc) == [loading EXCEPT !.pc[p] = pc]

\* from_pretrained returned: the model is cached and process p has it
Loaded(p) == [loading EXCEPT !.pc[p] = "loaded", !.cached = TRUE]

Released_never(l) == l

\* the lock file of the holder is unlocked or closed
Released(l) == [l EXCEPT !.holder = Unlocked]

\* what no step of _load_model touches
LoadFrame ==
    UNCHANGED <<manager_vars, translator, srt, transcription, threads,
               cache, session>>

\* the worker processes enter _load_model together, with fcntl available
\* and nothing in the cache
LoadInit ==
    /\ session = NoCall
    /\ AtRest
    /\ translator = NoCall
    /\ srt = NoCall
    /\ transcription = NoCall
    /\ threads = NoCall
    /\ cache = NoCall
    /\ loading = [pc |-> [p \in Jobs |-> "start"], holder |-> Unlocked,
                  cached |-> FALSE]

\* lines 86-112: _model is None, the process takes its _model_lock and
\* opens the lock file
open_lock_file(p) ==
    /\ loading.pc[p] = "start"
    /\ loading' = LoaderAt(p, "opened")
    /\ LoadFrame

\* line 115, flock(LOCK_EX | LOCK_NB): the lock, or IOError when another
\* process holds it
flock_nonblocking(p) ==
    /\ loading.pc[p] = "opened"
    /\ loading' =
           IF loading.holder = Unlocked
           THEN [loading EXCEPT !.pc[p] = "loading", !.holder = p]
           ELSE LoaderAt(p, "waiting")
    /\ LoadFrame

\* lines 119-140, from_pretrained under the lock: it returns and the lock is
\* released; or it raises IOError, which the except of line 142 takes for a
\* held lock (its flock on the locked file returns at once); or it raises
\* something else, the with block closes the lock file and the except of
\* line 161 loads directly
from_pretrained_locked(p) ==
    /\ loading.pc[p] = "loading"
    /\ \/ loading' = Released(Loaded(p))
       \/ loading' = LoaderAt(p, "loading_after_wait")
       \/ loading' = Released(LoaderAt(p, "fallback"))
    /\ LoadFrame

\* line 149, flock(LOCK_EX): blocks until no other process holds the lock
flock_blocking(p) ==
    /\ loading.pc[p] = "waiting"
    /\ loading.holder = Unlocked
    /\ loading' = [loading EXCEPT !.pc[p] = "loading_after_wait",
                                  !.holder = p]
    /\ LoadFrame

\* lines 152-159, from_pretrained after the wait: it returns and the lock is
\* released, or it raises, the lock file is closed and the except of line
\* 161 loads directly
from_pretrained_after_wait(p) ==
    /\ loading.pc[p] = "loading_after_wait"
    /\ \/ loading' = Released(Loaded(p))
       \/ loading' = Released(LoaderAt(p, "fallback"))
    /\ LoadFrame

\* lines 161-174, from_pretrained without the lock: it returns, or it raises
\* and _load_model raises RuntimeError
from_pretrained_fallback(p) ==
    /\ loading.pc[p] = "fallback"
    /\ \/ loading' = Loaded(p)
       \/ loading' = LoaderAt(p, "failed")
    /\ LoadFrame

LoadNext ==
    \/ \E p \in Jobs : open_lock_file(p)
    \/ \E p \in Jobs : flock_nonblocking(p)
    \/ \E p \in Jobs : from_pretrained_locked(p)
    \/ \E p \in Jobs : flock_blocking(p)
    \/ \E p \in Jobs : from_pretrained_after_wait(p)
    \/ \E p \in Jobs : from_pretrained_fallback(p)

LoadSpec == LoadInit /\ [][LoadNext]_vars

\* C16: when several worker processes start to load the model at once with
\* an empty cache and file locking available, at most one process at a time
\* is inside the download and load section, and a process that finds the
\* lock held waits for it.
C16_OneLoaderAtATime ==
    [][/\ Cardinality(InLoadSection') <= 1
       /\ \A p \in Jobs :
            (loading.pc[p] = "opened" /\ loading'.pc[p] # "opened"
                 /\ loading.holder # Unlocked) =>
                loading'.pc[p] = "waiting"]_vars

\* ---------------------------------------------------------------------
\* Threads of one process calling SpeechRecognizer.transcribe
\* (src/core/speech_recognizer.py).  The process has one recognizer
\* (__new__, lines 25-42) and one class-level _model_lock (line 23).
\* threads.pc[t] is the position of thread t, threads.remaining[t] the
\* number of _transcribe_chunk calls it has still to make, threads.lock the
\* thread holding _model_lock and threads.model whether _model is set.
\* ---------------------------------------------------------------------
Threads == Jobs

NoThread == -1

ThreadFrame ==
    UNCHANGED <<manager_vars, translator, srt, transcription, loading, cache,
                session>>

ThreadInit ==
    /\ session = NoCall
    /\ AtRest
    /\ translator = NoCall
    /\ srt = NoCall
    /\ transcription = NoCall
    /\ loading = NoCall
    /\ cache = NoCall
    /\ threads = [pc |-> [t \in Threads |-> "idle"],
                  remaining |-> [t \in Threads |-> 0],
                  lock |-> NoThread,
                  model |-> FALSE]

lock_free_always(l) == TRUE

\* threading.Lock: `with self._model_lock` enters only when no thread
\* holds the lock
lock_free(l) == l.lock = NoThread

\* lines 303 and 86-87: transcribe calls _load_model, which returns at once
\* when _model is set
transcribe(t) ==
    /\ threads.pc[t] \in {"idle", "returned"}
    /\ threads' = [threads EXCEPT
           !.pc[t] = IF threads.model THEN "acquire" ELSE "load_acquire"]
    /\ ThreadFrame

\* lines 89-92: _load_model takes _model_lock and checks _model again; it
\* returns (releasing the lock) when another thread has loaded the model
\* meanwhile
_load_model_enter(t) ==
    /\ threads.pc[t] = "load_acquire"
    /\ lock_free(threads)
    /\ threads' = IF threads.model
                  THEN [threads EXCEPT !.pc[t] = "acquire"]
                  ELSE [threads EXCEPT !.pc[t] = "loading", !.lock = t]
    /\ ThreadFrame

\* lines 97-223: the model is loaded and the with block releases the lock,
\* or the load fails, RuntimeError leaves the with block and transcribe
\* (line 303 is outside its try)
_load_model_leave(t) ==
    /\ threads.pc[t] = "loading"
    /\ \/ threads' = [threads EXCEPT !.pc[t] = "acquire", !.lock = NoThread,
                                     !.model = TRUE]
       \/ threads' = [threads EXCEPT !.pc[t] = "raised", !.lock = NoThread]
    /\ ThreadFrame

\* lines 316-344: transcribe takes _model_lock; the audio is transcribed
\* whole (chunk_duration None or a short audio: one _transcribe_chunk) or
\* by _transcribe_with_chunks (total_chunks >= 2 calls, lines 399-419)
acquire_model_lock(t) ==
    /\ threads.pc[t] = "acquire"
    /\ lock_free(threads)
    /\ \E n \in 1 .. MaxChunks :
           threads' = [threads EXCEPT !.pc[t] = "locked", !.lock = t,
                                      !.remaining[t] = n]
    /\ ThreadFrame

\* line 382: _transcribe_chunk calls self._model.transcribe; line 417: a
\* chunk that could not be extracted is skipped
_transcribe_chunk_enter(t) ==
    /\ threads.pc[t] = "locked"
    /\ threads.remaining[t] > 0
    /\ \/ threads' = [threads EXCEPT !.pc[t] = "in_model"]
       \/ /\ threads.remaining[t] > 1
          /\ threads' = [threads EXCEPT !.remaining[t] = @ - 1]
    /\ ThreadFrame

\* lines 383-387: the model's transcribe returns, or raises and
\* _transcribe_chunk returns an empty result
_transcribe_chunk_leave(t) ==
    /\ threads.pc[t] = "in_model"
    /\ threads' = [threads EXCEPT !.pc[t] = "locked", !.remaining[t] = @ - 1]
    /\ ThreadFrame

\* lines 344-349: the with block ends, the lock is released and transcribe
\* returns the result
release_model_lock(t) ==
    /\ threads.pc[t] = "locked"
    /\ threads.remaining[t] = 0
    /\ threads' = [threads EXCEPT !.pc[t] = "returned", !.lock = NoThread]
    /\ ThreadFrame

ThreadNext ==
    \/ \E t \in Threads : transcribe(t)
    \/ \E t \in Threads : _load_model_enter(t)
    \/ \E t \in Threads : _load_model_leave(t)
    \/ \E t \in Threads : acquire_model_lock(t)
    \/ \E t \in Threads : _transcribe_chunk_enter(t)
    \/ \E t \in Threads : _transcribe_chunk_leave(t)
    \/ \E t \in Threads : release_model_lock(t)

ThreadSpec == ThreadInit /\ [][ThreadNext]_vars

InModelTranscribe == {t \in DOMAIN threads.pc : threads.pc[t] = "in_model"}

\* C17: at most one transcription runs per process at any time: no two
\* threads of one process are ever inside the model's transcribe call
\* together, whether the audio is transcribed whole or in chunks.
C17_OneTranscriptionPerProcess ==
    threads # NoCall => Cardinality(InModelTranscribe) <= 1

\* one thread is inside the model's transcribe call, in the middle of a
\* chunked transcription, while another thread waits for the model lock
C17_Witness ==
    /\ threads # NoCall
    /\ \E t, u \in DOMAIN threads.pc :
           /\ threads.pc[t] = "in_model"
           /\ threads.remaining[t] = 2
           /\ threads.pc[u] = "acquire"
    /\ \E t, u \in DOMAIN threads.pc :
           /\ threads.pc[t] = "in_model"
           /\ threads.pc[u] = "returned"

\* ---------------------------------------------------------------------
\* The freshly constructed manager
\* ---------------------------------------------------------------------
\* no video has been submitted since MultiprocessVideoManager.__init__
Fresh == next_process_id = 0

\* C21: constructing a manager spawns no worker process: a freshly
\* constructed manager has no active and no pending jobs,
\* get_progress_updates() and get_results() return empty lists,
\* is_all_complete() returns true and cleanup() succeeds; worker processes
\* are spawned only when a submitted job is admitted (taken from the pending
\* list and recorded as active and running).
C21_FreshManagerSpawnsNothing ==
    [][/\ Fresh' =>
            /\ DOMAIN worker' = {}
            /\ active_processes' = {}
            /\ pending_tasks' = <<>>
            /\ processes' = <<>>
            /\ progress_queue' = <<>>
            /\ result_queue' = <<>>
       /\ (Fresh /\ caller' = "polling") => progress_queue = <<>>
       /\ (Fresh /\ caller = "polling") => result_queue = <<>>
       /\ (Fresh' /\ CallerFree) =>
              caller' \in {"polling", "all_complete", "stopped", "cleaned"}
       /\ \A j \in DOMAIN worker' \ DOMAIN worker :
              /\ j \in Range(pending_tasks) \/ j = next_process_id
              /\ j \notin Range(pending_tasks')
              /\ j \in active_processes'
              /\ tasks'[j].status = "running"
              /\ next_process_id' > j]_vars

\* is_all_complete() has returned true on a manager that was polled and
\* cleaned up without any submission
C21_Witness ==
    /\ Fresh
    /\ caller = "all_complete"
    /\ worker = <<>>
    /\ quota > 0

\* ---------------------------------------------------------------------
\* SubtitleFormatter.to_srt on any result, with and without highlight_words
\* (src/core/speech_recognizer.py, lines 590-661).  A text is a sequence of
\* characters; the returned string is "\n".join(srt_content), given here as
\* the list of its lines, the empty list for the empty string.
\* ---------------------------------------------------------------------
\* the tokens the aligner can give: text, start and end
AlignedTokens ==
    {[text |-> <<"x">>, start |-> 0, end |-> 1],
     [text |-> <<" ", "y">>, start |-> 1, end |-> 2]}

TokenCounts == 0..2

\* the sentences of a result: with and without tokens, with text to strip
AlignedSentences ==
    [text : {<<"a">>, <<" ", "b", " ">>},
     span : {<<0, 1>>, <<1, 2>>},
     tokens : UNION {[1..n -> AlignedTokens] : n \in TokenCounts}]

\* the results to_srt is called with: None, or an AlignedResult
AlignedResults ==
    {[none |-> TRUE, sentences |-> <<>>]} \cup
    [none : {FALSE},
     sentences : UNION {[1..n -> AlignedSentences] : n \in 0..MaxCues}]

\* the four lines to_srt appends for one entry
srt_entry(entry_index, start, end, text) ==
    <<[kind |-> "index", entry_index |-> entry_index],
      [kind |-> "times", start_time |-> format_timestamp(start),
                         end_time |-> format_timestamp(end)],
      [kind |-> "text", text |-> text],
      [kind |-> "blank"]>>

\* inner_token.text.replace(inner_token.text.strip(), "<u>...</u>") for a
\* text whose stripped form is not blank and occurs once in it: the tags go
\* around the stripped text, the blanks stay outside (a tag is one item)
underlined(text) ==
    SubSeq(text, 1, Len(text) - Len(lstrip(text)))
        \o <<"<u>">> \o strip(text) \o <<"</u>">>
        \o SubSeq(text, Len(rstrip(text)) + 1, Len(text))

\* lines 621-629: the texts of the tokens from the j-th on, token i
\* underlined
RECURSIVE highlighted(_, _, _)
highlighted(tokens, i, j) ==
    IF j > Len(tokens) THEN <<>>
    ELSE (IF i = j THEN underlined(tokens[j].text) ELSE tokens[j].text)
             \o highlighted(tokens, i, j + 1)

\* lines 610-636: the entries of a sentence with tokens from token i on,
\* numbered from entry_index
RECURSIVE token_entries(_, _, _)
token_entries(tokens, i, entry_index) ==
    IF i > Len(tokens) THEN <<>>
    ELSE srt_entry(entry_index, tokens[i].start,
                   IF tokens[i] = tokens[Len(tokens)] THEN tokens[i].end
                   ELSE tokens[i + 1].start,
                   strip(highlighted(tokens, i, 1)))
             \o token_entries(tokens, i + 1, entry_index + 1)

\* an entry for every sentence, whatever highlight_words is
sentence_entries_only(sentence, highlight_words, entry_index) ==
    srt_entry(entry_index, sentence.span[1], sentence.span[2],
              strip(sentence.text))

\* the entries of one sentence: lines 608-646 with highlight_words, lines
\* 648-657 without
sentence_entries(sentence, highlight_words, entry_index) ==
    IF highlight_words /\ sentence.tokens # <<>>
    THEN token_entries(sentence.tokens, 1, entry_index)
    ELSE srt_entry(entry_index, sentence.span[1], sentence.span[2],
                   strip(sentence.text))

\* the loop over result.sentences from the k-th on; an entry is four lines
RECURSIVE srt_lines(_, _, _, _)
srt_lines(sentences, highlight_words, k, entry_index) ==
    IF k > Len(sentences) THEN <<>>
    ELSE LET entries == sentence_entries(sentences[k], highlight_words,
                                         entry_index)
         IN  entries \o srt_lines(sentences, highlight_words, k + 1,
                                  entry_index + Len(entries) \div 4)

\* SubtitleFormatter.to_srt(result, highlight_words)
to_srt_lines(result, highlight_words) ==
    IF result.none \/ result.sentences = <<>> THEN <<>>
    ELSE srt_lines(result.sentences, highlight_words, 1, 1)

FormatFrame == UNCHANGED <<manager_vars, translator, srt, loading, threads,
               cache, session>>

\* to_srt is called with a result and a highlight_words
FormatInit ==
    /\ session = NoCall
    /\ AtRest
    /\ translator = NoCall
    /\ srt = NoCall
    /\ loading = NoCall
    /\ threads = NoCall
    /\ cache = NoCall
    /\ \E result \in AlignedResults, highlight_words \in BOOLEAN :
         transcription =
             [pc |-> "to_srt", result |-> result,
              highlight_words |-> highlight_words, returned |-> <<>>]

to_srt_call ==
    /\ transcription.pc = "to_srt"
    /\ transcription' =
           [transcription EXCEPT
              !.pc = "to_srt_returned",
              !.returned = to_srt_lines(transcription.result,
                                        transcription.highlight_words)]
    /\ FormatFrame

FormatNext == to_srt_call

FormatSpec == FormatInit /\ [][FormatNext]_vars

\* the lines of the given kind in a returned SRT, in order
LinesOfKind(lines, kind) ==
    SelectSeq(lines, LAMBDA l : l.kind = kind)

\* the returned SRT has one cue per sentence of the result: as many index
\* lines as sentences, the k-th numbered k and followed by the times and the
\* stripped text of the k-th sentence
OneCuePerSentence(result, lines) ==
    LET n == IF result.none THEN 0 ELSE Len(result.sentences) IN
    /\ Len(lines) = 4 * n
    /\ \A k \in 1..n :
         /\ lines[4 * k - 3] = [kind |-> "index", entry_index |-> k]
         /\ lines[4 * k - 2].kind = "times"
         /\ lines[4 * k - 2].start_time
                = format_timestamp(result.sentences[k].span[1])
         /\ lines[4 * k - 2].end_time
                = format_timestamp(result.sentences[k].span[2])
         /\ lines[4 * k - 1] =
                [kind |-> "text", text |-> strip(result.sentences[k].text)]
         /\ lines[4 * k].kind = "blank"

VideoPaths ==
    [dir : {"/a", "/b"},
     name : {<<"clip", "mp4">>, <<"clip", "mkv">>, <<"talk", "mp4">>}]

\* os.path.basename(video_path)
basename(video_path) == video_path.name

\* os.path.splitext(name)[0]: the name without its last extension
splitext_root(name) ==
    IF Len(name) > 1 THEN SubSeq(name, 1, Len(name) - 1) ELSE name

\* get_cache_paths: the three files in cache_dir
get_cache_paths(video_path, cache_dir) ==
    LET base_name == splitext_root(basename(video_path)) IN
    [audio |-> <<cache_dir, base_name, "_audio.wav">>,
     srt |-> <<cache_dir, base_name, "_output.srt">>,
     bilingual_srt |-> <<cache_dir, base_name, "_bilingual.srt">>]

\* the stage of process() in which each artifact is written
ArtifactStages ==
    [extract |-> "audio", subtitles |-> "srt", translate |-> "bilingual_srt"]

CacheFrame ==
    UNCHANGED <<manager_vars, translator, srt, transcription, loading,
                threads, session>>

\* two to MaxJobs distinct videos are submitted together; max_processes of
\* them run at once
CacheInit ==
    /\ session = NoCall
    /\ AtRest
    /\ translator = NoCall
    /\ srt = NoCall
    /\ transcription = NoCall
    /\ loading = NoCall
    /\ threads = NoCall
    /\ \E n \in 2..MaxJobs, limit \in DefaultMaxProcesses :
         \E video_paths \in [1..n -> VideoPaths] :
           /\ \A h, k \in 1..n : h # k => video_paths[h] # video_paths[k]
           /\ cache = [video_paths |-> video_paths,
                       cache_dir |-> "videoCache",
                       max_processes |-> limit,
                       stage |-> [k \in 1..n |-> "pending"]]

\* the workers that are running
CacheRunning ==
    {k \in DOMAIN cache.stage : cache.stage[k] \in DOMAIN ArtifactStages}

\* _try_start_next_tasks: the first pending video is started when fewer than
\* max_processes workers run
cache_start_task(k) ==
    /\ cache.stage[k] = "pending"
    /\ \A h \in 1..(k - 1) : cache.stage[h] # "pending"
    /\ Cardinality(CacheRunning) < cache.max_processes
    /\ cache' = [cache EXCEPT !.stage[k] = "extract"]
    /\ CacheFrame

\* process(): the worker has written the artifact of its stage and goes on
\* to the next, or ends
cache_write(k) ==
    /\ k \in CacheRunning
    /\ cache' = [cache EXCEPT !.stage[k] =
                    CASE @ = "extract" -> "subtitles"
                      [] @ = "subtitles" -> "translate"
                      [] @ = "translate" -> "ended"]
    /\ CacheFrame

\* the worker ends in a stage: an empty subtitle file, an exception
cache_end(k) ==
    /\ k \in CacheRunning
    /\ cache' = [cache EXCEPT !.stage[k] = "ended"]
    /\ CacheFrame

CacheNext ==
    \/ \E k \in DOMAIN cache.stage : cache_start_task(k)
    \/ \E k \in DOMAIN cache.stage : cache_write(k)
    \/ \E k \in DOMAIN cache.stage : cache_end(k)

CacheSpec == CacheInit /\ [][CacheNext]_vars

\* the files worker k writes in cache_dir
ArtifactsOf(k) ==
    LET paths == get_cache_paths(cache.video_paths[k], cache.cache_dir)
    IN  {paths.audio, paths.srt, paths.bilingual_srt}

\* C23: no two simultaneously running workers write the same cache artifact
\* file (extracted audio, source SRT, bilingual SRT) in cache_dir, for any
\* set of distinct input paths submitted together.
C23_NoSharedCacheArtifact ==
    cache # NoCall =>
        \A h, k \in CacheRunning :
            h # k => ArtifactsOf(h) \cap ArtifactsOf(k) = {}

\* C24: a worker cancelled by stop_all() still performs its resource cleanup
\* (the finally of process(): it closes its HTTP session and releases its
\* logger) before it stops: stop_all ends no living worker that has not yet
\* passed that finally.
C24_CancelledWorkerCleansUp ==
    [][\A j \in DOMAIN worker :
          (is_alive(worker[j]) /\ worker'[j].pc = "terminated") =>
              worker[j].pc \in {"post", "exiting"}]_vars

\* ---------------------------------------------------------------------
\* The batches the two engines cut the cues into
\* (src/core/video_processor.py, lines 1244-1255, 1356-1379, 1438-1466)
\* ---------------------------------------------------------------------
\* a text of n characters
text_of_length(n) == [k \in 1..n |-> "x"]

\* the lengths of the cues given to the LLM engine and to the free engine:
\* short ones, ones that fill a batch exactly alone or in twos, and one
\* longer than the budget
OpenAILengths == {1, 2, 3}

GoogleLengths ==
    {1, google_max_chars \div 2 - Len(google_separator),
     google_max_chars - Len(google_separator), google_max_chars + 1}

\* one to MaxCues + 1 cues with texts of the given lengths
EntriesOfLengths(lengths) ==
    UNION {[1..n -> {text_of_length(l) : l \in lengths}] :
               n \in 1..(MaxCues + 1)}

\* the cues, numbered from 1
numbered(texts) == [k \in 1..Len(texts) |-> [id |-> k, text |-> texts[k]]]

\* max_chars_per_batch and max_entries_per_batch of the api settings
BatchLimits ==
    {[max_chars |-> 2, max_entries |-> 50],
     [max_chars |-> 3, max_entries |-> 2],
     [max_chars |-> 8000, max_entries |-> 1],
     [max_chars |-> 8000, max_entries |-> 50]}

\* every cue in one request, whatever the budgets
openai_dispatch_single(entries, max_chars, max_entries) == <<entries>>

\* lines 1247-1255 and 1356-1379: the requests
\* _batch_translate_with_openai_multiprocess makes of the entries
openai_dispatch(entries, max_chars, max_entries) ==
    IF total_chars(entries) <= max_chars /\ Len(entries) <= max_entries
    THEN <<entries>>
    ELSE openai_batches(entries, max_chars, max_entries, <<>>, <<>>)

BatchFrame ==
    UNCHANGED <<manager_vars, srt, transcription, loading, threads, cache,
                session>>

\* an engine is given the cues of a subtitle file
BatchInit ==
    /\ session = NoCall
    /\ AtRest
    /\ srt = NoCall
    /\ transcription = NoCall
    /\ loading = NoCall
    /\ threads = NoCall
    /\ cache = NoCall
    /\ \/ \E texts \in EntriesOfLengths(OpenAILengths), limits \in BatchLimits :
            translator = [pc |-> "dispatch", engine |-> "OpenAI Translate",
                          entries |-> numbered(texts),
                          max_chars |-> limits.max_chars,
                          max_entries |-> limits.max_entries,
                          dispatched |-> <<>>]
       \/ \E texts \in EntriesOfLengths(GoogleLengths) :
            translator = [pc |-> "dispatch", engine |-> "Google Translate",
                          entries |-> numbered(texts),
                          max_chars |-> google_max_chars,
                          max_entries |-> 0,
                          dispatched |-> <<>>]

\* the LLM engine has cut the cues into its requests
openai_dispatched ==
    /\ translator.pc = "dispatch"
    /\ translator.engine = "OpenAI Translate"
    /\ translator' =
           [translator EXCEPT
              !.pc = "dispatched",
              !.dispatched = openai_dispatch(translator.entries,
                                 translator.max_chars, translator.max_entries)]
    /\ BatchFrame

\* the free engine has cut the cues into its requests
google_dispatched ==
    /\ translator.pc = "dispatch"
    /\ translator.engine = "Google Translate"
    /\ translator' =
           [translator EXCEPT
              !.pc = "dispatched",
              !.dispatched = google_batches(translator.entries, <<>>, <<>>)]
    /\ BatchFrame

BatchNext ==
    \/ openai_dispatched
    \/ google_dispatched

BatchSpec == BatchInit /\ [][BatchNext]_vars

\* the batches one after the other
RECURSIVE Flattened(_)
Flattened(batches) ==
    IF batches = <<>> THEN <<>>
    ELSE Head(batches) \o Flattened(Tail(batches))

\* the texts of a batch
TextsOf(batch) == [k \in 1..Len(batch) |-> batch[k].text]

\* the batch is within the budgets of the engine it was made for
WithinBudget(batch) ==
    IF translator.engine = "OpenAI Translate"
    THEN /\ Len(batch) <= translator.max_entries
         /\ total_chars(batch) <= translator.max_chars
    ELSE Len(join(google_separator, TextsOf(batch))) <= google_max_chars

\* the batches are consecutive runs of the cues in order
ConsecutiveRuns ==
    /\ \A b \in 1..Len(translator.dispatched) :
           translator.dispatched[b] # <<>>
    /\ Flattened(translator.dispatched) = translator.entries

\* C25: every batch dispatched to a provider respects that provider's
\* budgets and batches are consecutive runs of the input cues in order: an
\* LLM batch has at most max_entries_per_batch cues and at most
\* max_chars_per_batch characters of cue text, and a free-provider batch's
\* combined payload (texts joined by the separator) is at most 4500
\* characters, for every list of cues.
C25_BatchesWithinBudgets ==
    translator.pc = "dispatched" =>
        /\ ConsecutiveRuns
        /\ \A b \in 1..Len(translator.dispatched) :
               WithinBudget(translator.dispatched[b])

\* C25 as amended: the batches are consecutive runs of the input cues in
\* order, an LLM batch has at most max_entries_per_batch cues, and every
\* batch of more than one cue is within the character budget of its
\* provider; a cue that alone exceeds the character budget is sent as a
\* batch of its own, over the budget.
C25_BatchesWithinBudgetsUnlessOneLongCue ==
    translator.pc = "dispatched" =>
        /\ ConsecutiveRuns
        /\ \A b \in 1..Len(translator.dispatched) :
               LET batch == translator.dispatched[b] IN
               /\ translator.engine = "OpenAI Translate" =>
                      Len(batch) <= translator.max_entries
               /\ Len(batch) > 1 => WithinBudget(batch)
               /\ ~WithinBudget(batch) =>
                      /\ Len(batch) = 1
                      /\ Len(batch[1].text) > translator.max_chars

\* the free engine has made two batches of three cues: two cues that fill
\* a batch exactly and a cue over the budget
C25_Witness ==
    /\ translator.pc = "dispatched"
    /\ translator.engine = "Google Translate"
    /\ Len(translator.dispatched) = 2
    /\ Len(translator.dispatched[1]) = 2
    /\ Len(join(google_separator, TextsOf(translator.dispatched[1])))
           > google_max_chars - 2 * Len(google_separator)
    /\ ~WithinBudget(translator.dispatched[2])

\* ---------------------------------------------------------------------
\* The parsing of the response to an LLM batch
\* (src/core/video_processor.py, lines 1312-1348)
\* ---------------------------------------------------------------------
\* the parts a response can hold: a word, a word after a blank, nothing
ResponseParts == {<<"y">>, <<" ", "z">>, <<>>}

\* a batch of one to MaxCues + 1 cues
BatchesOfCues ==
    {[k \in 1..n |-> [id |-> k, timestamp |-> timestamp_line(k),
                      text |-> <<"t", digits[k + 1]>>]] :
        n \in 1..(MaxCues + 1)}

\* the contents of the message of a response: up to one part more than the
\* largest batch, between '\n%%\n', '%%' or line breaks
ResponseContents ==
    {join(sep, parts) :
        sep \in {openai_separator, percent_percent, newline},
        parts \in UNION {[1..n -> ResponseParts] : n \in 1..(MaxCues + 2)}}

ParseFrame ==
    UNCHANGED <<manager_vars, srt, transcription, loading, threads, cache,
                session>>

\* the request for a batch has come back with status 200 and a message
ParseInit ==
    /\ session = NoCall
    /\ AtRest
    /\ srt = NoCall
    /\ transcription = NoCall
    /\ loading = NoCall
    /\ threads = NoCall
    /\ cache = NoCall
    /\ \E entries \in BatchesOfCues, content \in ResponseContents :
         translator =
             [pc |-> "response", entries |-> entries,
              response |-> [status |-> "200", choices |-> TRUE,
                            finish_reason |-> "stop", message |-> TRUE,
                            content |-> content],
              translated |-> <<>>]

\* lines 1299-1348: the response is parsed into the translated entries
openai_response_parsed ==
    /\ translator.pc = "response"
    /\ translator' =
           [translator EXCEPT
              !.pc = "parsed",
              !.translated =
                  _translate_openai_batch_multiprocess(translator.entries,
                      translator.response).value]
    /\ ParseFrame

ParseNext == openai_response_parsed

ParseSpec == ParseInit /\ [][ParseNext]_vars

\* a part as the translation of a cue: trimmed, the cue's own text when
\* nothing is left
AsTranslation(part, original) ==
    IF strip(part) = <<>> THEN original ELSE strip(part)

\* every cue of the batch comes back with its id and timestamp and with its
\* text followed by a line break and the translation the given parts make:
\* part i for cue i, the original text where there is no part i
TranslatedFrom(parts) ==
    /\ Len(translator.translated) = Len(translator.entries)
    /\ \A i \in 1..Len(translator.entries) :
         LET entry == translator.entries[i] IN
         translator.translated[i] =
             [id |-> entry.id, timestamp |-> entry.timestamp,
              text |-> entry.text \o newline \o
                       (IF i <= Len(parts)
                        THEN AsTranslation(parts[i], entry.text)
                        ELSE entry.text)]

\* C26: for an LLM batch of n > 1 cues, the response is split on "\n%%\n" if
\* present, otherwise on "%%" if present, otherwise into lines; part i
\* becomes the translation of cue i, missing parts (fewer than n) are filled
\* with the original text of the corresponding cue, and extra parts are
\* truncated; for n = 1 the whole response is the translation.
C26_ResponseSplitInOrder ==
    translator.pc = "parsed" =>
        LET content == strip(translator.response.content) IN
        TranslatedFrom(
            IF Len(translator.entries) = 1 THEN <<content>>
            ELSE IF contains(content, openai_separator)
            THEN split(content, openai_separator)
            ELSE IF contains(content, percent_percent)
            THEN split(content, percent_percent)
            ELSE split(content, newline))

\* C26 as amended: the trimmed response to an LLM batch of n > 1 cues is
\* split on "\n%%\n" if present, otherwise on "%%" if present; otherwise it is
\* split into lines when it has at least n lines, and taken whole as the
\* single part when it has fewer.  Part i, trimmed, becomes the translation
\* of cue i, an empty part and a missing part (fewer than n) are filled with
\* the original text of the corresponding cue, and extra parts are
\* truncated; for n = 1 the whole response is the translation.
C26_ResponseSplitOrTakenWhole ==
    translator.pc = "parsed" =>
        LET content == strip(translator.response.content)
            n == Len(translator.entries)
        IN  TranslatedFrom(
                IF n = 1 THEN <<content>>
                ELSE IF contains(content, openai_separator)
                THEN split(content, openai_separator)
                ELSE IF contains(content, percent_percent)
                THEN split(content, percent_percent)
                ELSE IF Len(split(content, newline)) >= n
                THEN split(content, newline)
                ELSE <<content>>)

\* a response of two lines to a batch of three cues has been parsed: the
\* first cue has both lines, the others their original text
C26_Witness ==
    /\ translator.pc = "parsed"
    /\ Len(translator.entries) = 3
    /\ ~contains(translator.response.content, percent_percent)
    /\ Len(split(strip(translator.response.content), newline)) = 2
    /\ contains(translator.translated[1].text, <<"y", "\n", " ", "z">>)
    /\ translator.translated[3].text
           = translator.entries[3].text \o newline
                 \o translator.entries[3].text

\* ---------------------------------------------------------------------
\* The request of an LLM batch and the statuses the server answers with
\* (src/core/video_processor.py, lines 1293-1354; src/config.py, lines 79-93)
\* ---------------------------------------------------------------------
\* MAX_RETRIES of config.py
MAX_RETRIES == 3

\* what the server answers to the first request for a batch and what it
\* would answer to each request made again: 200 with a translation, 429 or
\* another error
ServerAnswers == [1..(MAX_RETRIES + 1) -> {"200", "429", "500"}]

\* the response with the given status; a 200 carries one part per line
response_with_status(status) ==
    [status |-> status, choices |-> status = "200",
     finish_reason |-> IF status = "200" THEN "stop" ELSE "none",
     message |-> status = "200",
     content |-> IF status = "200" THEN <<"y", "\n", "z", "\n", "w", "\n", "v">>
                 ELSE <<>>]

RequestFrame ==
    UNCHANGED <<manager_vars, srt, transcription, loading, threads, cache,
                session>>

\* _translate_openai_batch_multiprocess is called with a batch
RequestInit ==
    /\ session = NoCall
    /\ AtRest
    /\ srt = NoCall
    /\ transcription = NoCall
    /\ loading = NoCall
    /\ threads = NoCall
    /\ cache = NoCall
    /\ \E entries \in BatchesOfCues, answers \in ServerAnswers :
         translator =
             [pc |-> "post", entries |-> entries, answers |-> answers,
              requests |-> 0, status |-> "none", result |-> Raised]

\* lines 1293-1297: self.session.post(...) returns the server's answer to
\* this request (POST is not among the methods the adapter's max_retries
\* sends again on a status)
session_post ==
    /\ translator.pc = "post"
    /\ translator' =
           [translator EXCEPT
              !.pc = "response",
              !.requests = @ + 1,
              !.status = translator.answers[translator.requests + 1]]
    /\ RequestFrame

\* lines 1299-1354: a 200 is parsed and returned, any other status raises
response_handled ==
    /\ translator.pc = "response"
    /\ LET r == _translate_openai_batch_multiprocess(translator.entries,
                    response_with_status(translator.status))
       IN  translator' =
               [translator EXCEPT
                  !.pc = IF r.raised THEN "raised" ELSE "returned",
                  !.result = r]
    /\ RequestFrame

RequestNext ==
    \/ session_post
    \/ response_handled

RequestSpec == RequestInit /\ [][RequestNext]_vars

\* C27: an HTTP 429 response to an LLM translation request is retried (with
\* exponentially growing delays capped at about 60 s), and the batch is
\* treated as failed only after the retries are exhausted: a call that was
\* answered 429 and has raised has made MAX_RETRIES requests more than the
\* first.
C27_RateLimitRetried ==
    (translator.pc = "raised" /\ translator.status = "429") =>
        translator.requests = 1 + MAX_RETRIES

\* ---------------------------------------------------------------------
\* The chunks of a long audio, for any chunk and overlap duration
\* (src/core/speech_recognizer.py, transcribe lines 327-344 and
\* _transcribe_with_chunks lines 397-415).  Durations are whole seconds.
\* ---------------------------------------------------------------------
\* the chunk and overlap durations transcribe is called with: the ones of
\* generate_subtitles, and small ones with 0 <= overlap < chunk
ChunkSettings ==
    {[chunk |-> chunk_duration, overlap |-> overlap_duration]}
        \cup {[chunk |-> c, overlap |-> o] : c \in 2..4, o \in 0..3}

\* math.ceil((audio_duration - overlap) / step) rounded down instead
chunk_total_floor(audio_duration, chunk, overlap) ==
    LET floor == (audio_duration - overlap) \div (chunk - overlap)
    IN  IF floor > 1 THEN floor ELSE 1

\* lines 398-399: step_duration and total_chunks
chunk_total(audio_duration, chunk, overlap) ==
    LET step == chunk - overlap
        ceil == (audio_duration - overlap + step - 1) \div step
    IN  IF ceil > 1 THEN ceil ELSE 1

\* lines 409-410: start_time and end_time of the chunk
chunk_range(chunk_idx, audio_duration, chunk, overlap) ==
    LET start_time == chunk_idx * (chunk - overlap)
    IN  <<start_time, Min(start_time + chunk, audio_duration)>>

ChunkFrame ==
    UNCHANGED <<manager_vars, translator, srt, loading, threads, cache,
                session>>

\* transcribe has found the audio longer than the chunk duration (line 327);
\* the audio makes no more than MaxChunks chunks
ChunkInit ==
    /\ session = NoCall
    /\ AtRest
    /\ translator = NoCall
    /\ srt = NoCall
    /\ loading = NoCall
    /\ threads = NoCall
    /\ cache = NoCall
    /\ \E s \in ChunkSettings :
         /\ s.overlap < s.chunk
         /\ \E audio_duration \in
                (s.chunk + 1)..(s.overlap + MaxChunks * (s.chunk - s.overlap)) :
              transcription =
                  [pc |-> "ranges", audio_duration |-> audio_duration,
                   chunk |-> s.chunk, overlap |-> s.overlap,
                   total |-> 0, chunk_idx |-> 0, ranges |-> <<>>]

\* lines 398-401: the number of chunks is computed
count_chunks ==
    /\ transcription.pc = "ranges"
    /\ transcription' =
           [transcription EXCEPT
              !.pc = "range",
              !.total = chunk_total(transcription.audio_duration,
                                    transcription.chunk, transcription.overlap)]
    /\ ChunkFrame

\* lines 406-415: the time range of the next chunk is computed and the chunk
\* is extracted
next_chunk_range ==
    /\ transcription.pc = "range"
    /\ transcription.chunk_idx < transcription.total
    /\ transcription' =
           [transcription EXCEPT
              !.chunk_idx = @ + 1,
              !.ranges = Append(@, chunk_range(transcription.chunk_idx,
                                    transcription.audio_duration,
                                    transcription.chunk,
                                    transcription.overlap)),
              !.pc = IF transcription.chunk_idx + 1 = transcription.total
                     THEN "ranges_done" ELSE "range"]
    /\ ChunkFrame

ChunkNext ==
    \/ count_chunks
    \/ next_chunk_range

ChunkSpec == ChunkInit /\ [][ChunkNext]_vars

\* C28: for audio of duration D > chunk_s with 0 <= overlap_s < chunk_s:
\* step = chunk_s - overlap_s, the number of chunks is
\* ceil((D - overlap_s) / step), chunk i covers
\* [i*step, min(i*step + chunk_s, D)], every chunk is non-empty, and the
\* chunks together cover [0, D] (D=310, chunk=120, overlap=15 gives the 3
\* chunks [0,120], [105,225], [210,310]).
C28_ChunksCoverAudio ==
    transcription.pc = "ranges_done" =>
        LET D == transcription.audio_duration
            step == transcription.chunk - transcription.overlap
            ranges == transcription.ranges
            n == Len(ranges)
        IN  /\ n * step >= D - transcription.overlap
            /\ (n - 1) * step < D - transcription.overlap
            /\ \A i \in 0..(n - 1) :
                 /\ ranges[i + 1][1] = i * step
                 /\ ranges[i + 1][2] =
                        (IF i * step + transcription.chunk < D
                         THEN i * step + transcription.chunk ELSE D)
                 /\ ranges[i + 1][1] < ranges[i + 1][2]
            /\ ranges[1][1] = 0
            /\ ranges[n][2] = D
            /\ \A i \in 1..(n - 1) : ranges[i + 1][1] <= ranges[i][2]
            /\ (D = 310 /\ transcription.chunk = 120
                    /\ transcription.overlap = 15) =>
                   ranges = <<<<0, 120>>, <<105, 225>>, <<210, 310>>>>

\* the three chunks of an audio of 310 s have been cut with the settings of
\* generate_subtitles
C28_Witness ==
    /\ transcription.pc = "ranges_done"
    /\ transcription.audio_duration = 310
    /\ transcription.chunk = chunk_duration
    /\ transcription.overlap = overlap_duration
    /\ Len(transcription.ranges) = 3

\* ---------------------------------------------------------------------
\* One call of _merge_chunk_result (src/core/speech_recognizer.py, lines
\* 422-427 and 483-528), with the settings of generate_subtitles
\* ---------------------------------------------------------------------
MergeFrame ==
    UNCHANGED <<manager_vars, translator, srt, loading, threads, cache,
                session>>

\* the chunk chunk_idx of a long audio has been transcribed; all_sentences
\* holds nothing yet or a sentence of an earlier chunk
MergeInit ==
    /\ session = NoCall
    /\ AtRest
    /\ translator = NoCall
    /\ srt = NoCall
    /\ loading = NoCall
    /\ threads = NoCall
    /\ cache = NoCall
    /\ \E chunk_idx \in 0..(MaxChunks - 1),
          chunk_result \in ChunkResults(chunk_duration),
          earlier \in {<<>>, <<[start |-> 0, end |-> overlap_duration,
                               tokens |-> <<>>]>>} :
         transcription =
             [pc |-> "merge", chunk_idx |-> chunk_idx,
              chunk_result |-> chunk_result, earlier |-> earlier,
              all_sentences |-> earlier]

\* lines 422-427: _merge_chunk_result(chunk_result, all_sentences,
\* start_time, overlap_duration if chunk_idx > 0 else 0.0)
merge_chunk ==
    /\ transcription.pc = "merge"
    /\ transcription' =
           [transcription EXCEPT
              !.pc = "merged",
              !.all_sentences =
                  _merge_chunk_result(transcription.chunk_result, @,
                      transcription.chunk_idx * step_duration,
                      IF transcription.chunk_idx > 0 THEN overlap_duration
                      ELSE 0)]
    /\ MergeFrame

MergeNext == merge_chunk

MergeSpec == MergeInit /\ [][MergeNext]_vars

\* the sentence with its times and the times of its tokens later by shift
Shifted(sentence, shift) ==
    [start |-> sentence.start + shift, end |-> sentence.end + shift,
     tokens |-> [k \in 1..Len(sentence.tokens) |->
                    [start |-> sentence.tokens[k].start + shift,
                     end |-> sentence.tokens[k].end + shift]]]

\* C29: when the result of chunk i is merged, all sentence and token
\* timestamps are shifted by exactly i*step; every sentence of chunk 0 is
\* kept, and for i > 0 a sentence is kept if and only if its shifted start
\* is at or after i*step + overlap_s, so sentences starting inside a chunk's
\* leading overlap come only from the previous chunk.
C29_MergeShiftsAndSkipsOverlap ==
    transcription.pc = "merged" =>
        LET i == transcription.chunk_idx
            shift == i * (chunk_duration - overlap_duration)
            kept == SelectSeq(transcription.chunk_result,
                        LAMBDA s : i = 0 \/ s.start + shift
                                                >= shift + overlap_duration)
        IN  transcription.all_sentences =
                transcription.earlier
                    \o [k \in 1..Len(kept) |-> Shifted(kept[k], shift)]

\* the result of a later chunk has been merged: of its two sentences the
\* one starting inside the overlap is dropped, the other kept with its
\* tokens
C29_Witness ==
    /\ transcription.pc = "merged"
    /\ transcription.chunk_idx = MaxChunks - 1
    /\ Len(transcription.chunk_result) = 2
    /\ transcription.chunk_result[1].start < overlap_duration
    /\ transcription.chunk_result[2].tokens # <<>>
    /\ Len(transcription.all_sentences) = Len(transcription.earlier) + 1

\* the sentences of a chunk's result that the merge of chunk i keeps, at
\* their times in the audio
KeptOf(chunk_result, i) ==
    LET shift == i * (chunk_duration - overlap_duration)
        kept == SelectSeq(chunk_result,
                    LAMBDA s : i = 0 \/ s.start >= overlap_duration)
    IN  [k \in 1..Len(kept) |-> Shifted(kept[k], shift)]

\* C30: during chunked transcription, a failure to extract or to transcribe
\* one chunk only skips that chunk: the remaining chunks are still
\* processed, their sentences appear in the result, and the file's
\* transcription does not abort.
C30_FailedChunkOnlySkipped ==
    [][transcription.pc = "chunks" =>
          LET i == transcription.chunk_idx
              outcome == transcription'.outcomes[i + 1]
          IN  /\ transcription'.chunk_idx = i + 1
              /\ Len(transcription'.outcomes) = i + 1
              /\ transcription'.pc =
                     IF i + 1 < total_chunks(transcription.audio_duration)
                     THEN "chunks" ELSE "result"
              /\ outcome # "transcribed" =>
                     transcription'.all_sentences = transcription.all_sentences
              /\ outcome = "transcribed" =>
                     transcription'.all_sentences =
                         transcription.all_sentences
                             \o KeptOf(transcription'.chunk_result, i)]_vars

\* the result of an audio of MaxChunks chunks of which one could not be
\* extracted and a later one could not be transcribed, with a sentence of
\* the chunk before them and one of the chunk after them
C30_Witness ==
    /\ transcription.pc = "result"
    /\ Len(transcription.outcomes) = MaxChunks
    /\ \E k \in 2..(MaxChunks - 1) :
         /\ transcription.outcomes[k] \in {"no_chunk", "failed"}
         /\ \A h \in 1..MaxChunks :
              h # k => transcription.outcomes[h] = "transcribed"
    /\ Len(transcription.all_sentences) = 2
    /\ transcription.all_sentences[1].start < chunk_duration
    /\ transcription.all_sentences[2].start
           >= (MaxChunks - 1) * step_duration + overlap_duration

\* ---------------------------------------------------------------------
\* A job whose audio is transcribed whole: SpeechRecognizer.transcribe
\* (src/core/speech_recognizer.py, lines 320-335), _transcribe_chunk (lines
\* 378-387), generate_subtitles and process() (src/core/video_processor.py,
\* lines 1128-1149 and 1037-1065)
\* ---------------------------------------------------------------------
WholeFrame ==
    UNCHANGED <<manager_vars, translator, srt, loading, threads, cache,
                session>>

\* the durations of audios transcribe does not cut in chunks
ShortAudioDurations == {overlap_duration, chunk_duration}

\* transcribe holds the model lock and has found audio_duration <=
\* chunk_duration
WholeInit ==
    /\ session = NoCall
    /\ AtRest
    /\ translator = NoCall
    /\ srt = NoCall
    /\ loading = NoCall
    /\ threads = NoCall
    /\ cache = NoCall
    /\ \E audio_duration \in ShortAudioDurations :
         transcription =
             [pc |-> "whole", audio_duration |-> audio_duration,
              runtime |-> "none", sentences |-> <<>>, srt_content |-> <<>>,
              res |-> "none"]

\* line 332 with lines 380-387: self._model.transcribe returns a result, or
\* it raises and _transcribe_chunk returns AlignedResult(text="",
\* sentences=[]) in its except
transcribe_whole ==
    /\ transcription.pc = "whole"
    /\ \/ \E result \in ChunkResults(transcription.audio_duration) :
            transcription' =
                [transcription EXCEPT !.pc = "to_srt",
                                      !.runtime = "returned",
                                      !.sentences = result]
       \/ transcription' =
              [transcription EXCEPT !.pc = "to_srt", !.runtime = "raised",
                                    !.sentences = <<>>]
    /\ WholeFrame

\* generate_subtitles, lines 1136-1142: the SRT of the result is written
write_whole_srt ==
    /\ transcription.pc = "to_srt"
    /\ transcription' =
           [transcription EXCEPT
              !.pc = "translate",
              !.srt_content = to_srt(transcription.sentences)]
    /\ WholeFrame

\* process(), lines 1040-1065: an SRT without a line makes
\* translate_subtitles return "" (line 1155) and process() return skipped;
\* otherwise the translation and the synthesis complete or raise
process_after_srt ==
    /\ transcription.pc = "translate"
    /\ \E res \in IF transcription.srt_content = <<>> THEN {"skipped"}
                  ELSE {"completed", "error"} :
         transcription' = [transcription EXCEPT !.pc = "done", !.res = res]
    /\ WholeFrame

WholeNext ==
    \/ transcribe_whole
    \/ write_whole_srt
    \/ process_after_srt

WholeSpec == WholeInit /\ [][WholeNext]_vars

\* C31: if the speech-recognition runtime raises an error while transcribing
\* an audio file that is processed whole (not chunked), that job ends Failed
\* with a transcription error.
C31_WholeFileErrorFailsJob ==
    (transcription.pc = "done" /\ transcription.runtime = "raised") =>
        transcription.res = "error"

\* ---------------------------------------------------------------------
\* The runs of the media tool in one job: VideoProcessor.extract_audio and
\* VideoProcessor.burn_subtitles (src/core/video_processor.py, lines
\* 321-364 and 800-887) as process() calls them (lines 1032 and 1057)
\* ---------------------------------------------------------------------
ToolFrame ==
    UNCHANGED <<manager_vars, translator, srt, transcription, loading,
                threads, session>>

\* how a run of ffmpeg can end: its exit code, what it leaves at its output
\* path, and whether its stderr says "no such file or directory"
ToolRuns ==
    [returncode : {0, 1}, output : {"missing", "empty", "written"},
     no_such_file : BOOLEAN]

\* extract_audio for a video with an audio stream that trusts the exit code
extract_audio_unverified(run, silent_run) ==
    IF run.returncode = 0 THEN "returned"
    ELSE IF ~run.no_such_file /\ silent_run.returncode = 0 THEN "returned"
    ELSE "raised"

\* lines 321-364, for a video with an audio stream: check=True raises
\* CalledProcessError on a non-zero exit, and then, unless stderr says "no
\* such file or directory", a silent audio file is made in its place and
\* True returned if that run succeeds; after exit code 0 a missing or empty
\* output file raises
extract_audio(run, silent_run) ==
    IF run.returncode = 0
    THEN IF run.output = "written" THEN "returned" ELSE "raised"
    ELSE IF ~run.no_such_file /\ silent_run.returncode = 0 THEN "returned"
    ELSE "raised"

\* lines 873-887: a non-zero exit raises, and so does a missing or empty
\* output file
burn_outcome(run) ==
    IF run.returncode = 0 /\ run.output = "written" THEN "returned"
    ELSE "raised"

\* process() is about to call extract_audio; ffmpeg is installed, the video
\* exists and has an audio stream
ToolInit ==
    /\ session = NoCall
    /\ AtRest
    /\ translator = NoCall
    /\ srt = NoCall
    /\ transcription = NoCall
    /\ loading = NoCall
    /\ threads = NoCall
    /\ \E extract_run \in ToolRuns, burn_run \in ToolRuns,
          silent_run \in {r \in ToolRuns : ~r.no_such_file} :
         cache = [pc |-> "extract_audio", extract_run |-> extract_run,
                  silent_run |-> silent_run, burn_run |-> burn_run,
                  burned |-> FALSE, res |-> "none"]

\* process(), line 1032 and the except of line 1067
extract_audio_call ==
    /\ cache.pc = "extract_audio"
    /\ cache' =
           IF extract_audio(cache.extract_run, cache.silent_run) = "raised"
           THEN [cache EXCEPT !.pc = "done", !.res = "error"]
           ELSE [cache EXCEPT !.pc = "recognize"]
    /\ ToolFrame

\* process(), lines 1035-1053: recognition and translation raise, find no
\* subtitles, or write the bilingual SRT
recognize_and_translate ==
    /\ cache.pc = "recognize"
    /\ \/ \E res \in {"error", "skipped"} :
            cache' = [cache EXCEPT !.pc = "done", !.res = res]
       \/ cache' = [cache EXCEPT !.pc = "burn_subtitles"]
    /\ ToolFrame

\* process(), lines 1057-1065 and the except of line 1067
burn_subtitles_call ==
    /\ cache.pc = "burn_subtitles"
    /\ cache' =
           [cache EXCEPT
              !.pc = "done",
              !.burned = TRUE,
              !.res = IF burn_outcome(cache.burn_run) = "raised"
                      THEN "error" ELSE "completed"]
    /\ ToolFrame

ToolNext ==
    \/ extract_audio_call
    \/ recognize_and_translate
    \/ burn_subtitles_call

ToolSpec == ToolInit /\ [][ToolNext]_vars

\* the run exited with a non-zero status or left a missing or empty output
ToolFailed(run) == run.returncode # 0 \/ run.output # "written"

SessionFrame ==
    UNCHANGED <<manager_vars, translator, srt, transcription, loading,
                threads, cache>>

\* the numbers of tasks get_dynamic_max_processes is called with
TaskCounts == 0..6

\* the max_processes values config.json can hold (load_config takes the
\* value as it is, line 149): the settings dialog saves 1 to 12, a file
\* written by hand anything
MaxProcessesValues == {-1, 0, 1, 2, 3, 4, 12, 13}

\* what get_dynamic_max_processes finds out about the machine:
\* platform.system(), what sysctl says of hw.optional.arm64 (or that the
\* run raises), and the memory in GB sysctl reports (-1: its run fails)
Platforms ==
    [system : {"Darwin", "Linux"}, arm64 : {"1", "0", "raises"},
     mem_gb : {-1, 8, 16, 32}]

\* get_dynamic_max_processes if it returned the configured value for every
\* task_count above 2
get_dynamic_max_processes_cap(task_count, MAX_PROCESSES, platform) ==
    IF task_count <= 1 THEN 1
    ELSE IF task_count = 2 THEN Min(2, MAX_PROCESSES)
    ELSE MAX_PROCESSES

\* lines 32-75
get_dynamic_max_processes(task_count, MAX_PROCESSES, platform) ==
    LET max_allowed == MAX_PROCESSES
    IN  IF task_count <= 0 THEN 1
        ELSE IF task_count = 1 THEN 1
        ELSE IF task_count = 2 THEN Min(2, max_allowed)
        ELSE IF task_count <= 4 THEN Min(task_count, max_allowed)
        ELSE IF platform.system = "Darwin"
        THEN IF platform.arm64 = "raises"
             THEN Min(max_allowed, task_count)
             ELSE IF platform.arm64 = "1" /\ platform.mem_gb >= 32
             THEN Min(max_allowed, task_count)
             ELSE IF platform.arm64 = "1" /\ platform.mem_gb >= 16
             THEN Min(max_allowed, 3)
             ELSE Min(max_allowed, 2)
        ELSE Min(max_allowed, 2)

\* a call of get_dynamic_max_processes
DynamicInit ==
    /\ AtRest
    /\ translator = NoCall
    /\ srt = NoCall
    /\ transcription = NoCall
    /\ loading = NoCall
    /\ threads = NoCall
    /\ cache = NoCall
    /\ \E task_count \in TaskCounts, MAX_PROCESSES \in MaxProcessesValues,
          platform \in Platforms :
         session = [pc |-> "call", task_count |-> task_count,
                    MAX_PROCESSES |-> MAX_PROCESSES, platform |-> platform,
                    returned |-> 0]

get_dynamic_max_processes_call ==
    /\ session.pc = "call"
    /\ session' =
           [session EXCEPT
              !.pc = "returned",
              !.returned =
                  get_dynamic_max_processes(session.task_count,
                      session.MAX_PROCESSES, session.platform)]
    /\ SessionFrame

DynamicNext == get_dynamic_max_processes_call

DynamicSpec == DynamicInit /\ [][DynamicNext]_vars

MaxRuns == 2

\* mp.cpu_count()
CpuCounts == {1, 2, 8, 16}

\* how many files the user drops for one batch
BatchSizes == {1, 2, 3, 5}

\* the values the max_processes spin box of the settings dialog can save
\* (setRange(1, 12), api_settings_dialog.py line 146)
SpinboxValues == {1, 2, 4, 12}

\* self.multiprocess_manager = None
NoManager == [made |-> FALSE, max_processes |-> 0]

\* MultiprocessVideoManager(max_processes=n), video_processor.py lines
\* 1533-1538: the argument is taken as it is
MultiprocessVideoManager(n) == [made |-> TRUE, max_processes |-> n]

\* config.py is imported (load_config, line 149: MAX_PROCESSES is what the
\* file holds) and init_settings has run: self.max_processes is
\* min(MAX_PROCESSES, cpu_count) and there is no manager yet
SessionInit ==
    /\ AtRest
    /\ translator = NoCall
    /\ srt = NoCall
    /\ transcription = NoCall
    /\ loading = NoCall
    /\ threads = NoCall
    /\ cache = NoCall
    /\ \E MAX_PROCESSES \in MaxProcessesValues, cpu_count \in CpuCounts,
          platform \in Platforms :
         session = [pc |-> "idle", MAX_PROCESSES |-> MAX_PROCESSES,
                    cpu_count |-> cpu_count, platform |-> platform,
                    max_processes |-> Min(MAX_PROCESSES, cpu_count),
                    multiprocess_manager |-> NoManager,
                    video_paths |-> 0, runs |-> 0]

\* _ensure_multiprocess_manager: a manager is made only if there is none,
\* with get_dynamic_max_processes(len(self.video_paths))
_ensure_multiprocess_manager(s) ==
    IF s.multiprocess_manager.made THEN s.multiprocess_manager
    ELSE MultiprocessVideoManager(
             get_dynamic_max_processes(s.video_paths, s.MAX_PROCESSES,
                                       s.platform))

\* the user drops k files and starts: process_videos submits them to the
\* manager _ensure_multiprocess_manager gives
process_videos ==
    /\ session.pc = "idle"
    /\ session.runs < MaxRuns
    /\ \E k \in BatchSizes :
         LET s == [session EXCEPT !.video_paths = k]
         IN  session' =
                 [s EXCEPT !.pc = "processing",
                           !.runs = @ + 1,
                           !.multiprocess_manager =
                               _ensure_multiprocess_manager(s)]
    /\ SessionFrame

\* all_processes_completed with reset_ui_state_keep_progress: the paths
\* are reset, the manager is kept
all_processes_completed ==
    /\ session.pc = "processing"
    /\ session' = [session EXCEPT !.pc = "idle", !.video_paths = 0]
    /\ SessionFrame

\* open_settings with a saved dialog (the settings button is disabled while
\* processing): self.max_processes becomes the saved value, an existing
\* manager is dropped if that changed, and save_config sets MAX_PROCESSES
open_settings ==
    /\ session.pc = "idle"
    /\ \E value \in SpinboxValues :
         session' =
             [session EXCEPT
                !.max_processes = value,
                !.MAX_PROCESSES = value,
                !.multiprocess_manager =
                    IF @.made /\ session.max_processes # value
                    THEN NoManager ELSE @]
    /\ SessionFrame

SessionNext ==
    \/ process_videos
    \/ all_processes_completed
    \/ open_settings

SessionSpec == SessionInit /\ [][SessionNext]_vars

\* C34: the concurrency limit N handed to the scheduler is always within
\* [1, min(12, CPU_count)], whatever max_processes value the configuration
\* file holds, so a scheduler is never created with N < 1.
C34_LimitWithinBounds ==
    session.multiprocess_manager.made =>
        /\ session.multiprocess_manager.max_processes >= 1
        /\ session.multiprocess_manager.max_processes
               <= Min(12, session.cpu_count)

\* C40: each processing batch runs under the concurrency limit derived from
\* that batch: whenever process_videos() submits a batch of k files, the
\* scheduler's max_processes equals get_dynamic_max_processes(k), for the
\* first batch and for every later batch in the same application session.
C40_LimitDerivedFromBatch ==
    session.pc = "processing" =>
        session.multiprocess_manager.max_processes =
            get_dynamic_max_processes(session.video_paths,
                session.MAX_PROCESSES, session.platform)

\* ---------------------------------------------------------------------
\* The end of process() in a worker (src/core/video_processor.py, lines
\* 1061-1081 and 925-942)
\* ---------------------------------------------------------------------
\* C35: on every way process() ends (Completed, Skipped or Failed), the
\* worker closes its HTTP session and its logger before the terminal result
\* is posted, and it does not release or clear the shared ASR model handle:
\* a worker that posts the result of process() has closed both, and a
\* loaded model stays loaded as long as the worker lives.
C35_ClosedBeforeResultModelKept ==
    [][\A j \in DOMAIN worker :
          /\ (results_put'[j] # results_put[j] /\ worker[j].pc # "start") =>
                 /\ worker[j].res \in {"completed", "skipped", "error"}
                 /\ worker[j].session = "closed"
                 /\ worker[j].logger = "closed"
                 /\ worker'[j].session = "closed"
                 /\ worker'[j].logger = "closed"
          /\ (worker[j].model = "loaded" /\ is_alive(worker'[j])) =>
                 worker'[j].model = "loaded"]_vars

\* a worker whose process() raised after the model was loaded has posted its
\* error result with the session and the logger closed and the model loaded
C35_Witness ==
    \E j \in DOMAIN worker :
        /\ worker[j].pc = "exiting"
        /\ results_put[j] = <<Result(j, "error")>>
        /\ worker[j].session = "closed"
        /\ worker[j].logger = "closed"
        /\ worker[j].model = "loaded"

\* C36: progress 100 is reported for a job only after the burn tool has
\* exited successfully or the job was skipped for empty subtitles; while
\* burning, reported progress stays within [80, 99], and a job that ends
\* Failed never reports 100.
C36_HundredOnlyAfterBurnOrSkip ==
    [][\A j \in DOMAIN worker :
          /\ (worker'[j].progress = 100 /\ worker[j].progress # 100) =>
                 \/ /\ worker[j].pc = "burn"
                    /\ worker'[j].pc = "st_done"
                    /\ worker'[j].res = "none"
                 \/ /\ worker[j].pc = "p100s"
                    /\ worker'[j].res = "skipped"
          /\ worker'[j].pc \in {"burn_start", "burn"} =>
                 worker'[j].progress \in 80..99
          /\ worker'[j].res = "error" => worker'[j].progress < 100
          /\ (results_put'[j] # results_put[j]
                 /\ results_put'[j][1].status = "error") =>
                 worker[j].progress < 100]_vars

\* the burn of a job has reported 99 and the job has then failed
C36_Witness ==
    \E j \in DOMAIN worker :
        /\ worker[j].progress = 99
        /\ results_put[j] = <<Result(j, "error")>>

\* ---------------------------------------------------------------------
\* From the transcription result to the bilingual SRT: to_srt
\* (src/core/speech_recognizer.py, lines 648-661), written and read back
\* (src/core/video_processor.py, lines 1139-1142 and 1042-1043), parsed,
\* translated and written by translate_subtitles (lines 1159-1224)
\* ---------------------------------------------------------------------
\* the texts of the sentences of a result: a word, a number after a blank,
\* and a sentence made of a blank token only
SentenceTexts == {<<"a">>, <<" ", "7">>, <<" ">>}

\* the lines readlines() gives for the SRT to_srt makes of sentences with
\* these texts, from the k-th on: index, timestamp and stripped text, and an
\* empty line between two entries
RECURSIVE source_srt_lines(_, _)
source_srt_lines(texts, k) ==
    IF k > Len(texts) THEN <<>>
    ELSE <<str(k) \o newline, timestamp_line(k) \o newline,
           strip(texts[k]) \o newline>>
             \o (IF k < Len(texts) THEN <<newline>> ELSE <<>>)
             \o source_srt_lines(texts, k + 1)

\* the recognizer has returned a result with sentences
BilingualInit ==
    /\ session = NoCall
    /\ AtRest
    /\ translator = NoCall
    /\ transcription = NoCall
    /\ loading = NoCall
    /\ threads = NoCall
    /\ cache = NoCall
    /\ \E texts \in UNION {[1..n -> SentenceTexts] : n \in 1..(MaxCues + 1)} :
         srt = [pc |-> "result", cues |-> texts, lines |-> <<>>,
                entries |-> <<>>, content |-> <<>>]

\* generate_subtitles writes to_srt(result) and process() reads its lines
source_srt_written ==
    /\ srt.pc = "result"
    /\ srt' = [srt EXCEPT !.pc = "read",
                          !.lines = source_srt_lines(srt.cues, 1)]
    /\ SrtFrame

\* translate_subtitles, lines 1198-1214: no entry makes it return "";
\* otherwise the engine gives a translation for every entry, or none (the
\* original text is used)
entries_translated ==
    /\ srt.pc = "parsed"
    /\ IF srt.entries = <<>>
       THEN srt' = [srt EXCEPT !.pc = "empty"]
       ELSE \E text \in {<<"y">>, <<>>} :
              srt' = [srt EXCEPT
                        !.pc = "translated",
                        !.entries =
                            translated_entries(srt.entries,
                                [k \in 1..Len(srt.entries) |-> text])]
    /\ SrtFrame

\* translate_subtitles, lines 1216-1224, and the write of line 1051
bilingual_written ==
    /\ srt.pc = "translated"
    /\ srt' = [srt EXCEPT
                 !.pc = "bilingual",
                 !.content = translated_content(sort_by_id(srt.entries))]
    /\ SrtFrame

BilingualNext ==
    \/ source_srt_written
    \/ parse_subtitles
    \/ entries_translated
    \/ bilingual_written

BilingualSpec == BilingualInit /\ [][BilingualNext]_vars

\* C37: in the bilingual SRT written by the translate stage, cue indices
\* are unique and consecutive starting at 1, for every transcription result
\* the recognizer can return and every source SRT the transcription stage
\* can write.
C37_BilingualIndicesDense ==
    srt.pc = "bilingual" =>
        \A k \in 1..Len(CuesOfContent(srt.content)) :
            CuesOfContent(srt.content)[k].index = str(k)

\* ---------------------------------------------------------------------
\* Threads of one process constructing the recognizer and transcribing
\* (src/core/speech_recognizer.py, __new__ lines 25-42, __init__ lines
\* 45-81).  threads.instances is the entry of _instances for the process
\* (0: none, else the number of the instance), threads.created the number
\* of instances made, threads.class_lock the thread holding _lock,
\* threads.instance[t] the instance the construction of thread t returned,
\* threads.initialized and threads.model the fields _initialized and _model
\* of the instance in _instances.
\* ---------------------------------------------------------------------
RecognizerInit ==
    /\ session = NoCall
    /\ AtRest
    /\ translator = NoCall
    /\ srt = NoCall
    /\ transcription = NoCall
    /\ loading = NoCall
    /\ cache = NoCall
    /\ threads = [pc |-> [t \in Threads |-> "start"],
                  remaining |-> [t \in Threads |-> 0],
                  lock |-> NoThread,
                  model |-> FALSE,
                  instances |-> 0,
                  created |-> 0,
                  class_lock |-> NoThread,
                  initialized |-> FALSE,
                  instance |-> [t \in Threads |-> 0]]

\* line 29: is the process in _instances? (read without the lock)
new_check(t) ==
    /\ threads.pc[t] = "start"
    /\ threads' = [threads EXCEPT
           !.pc[t] = IF threads.instances = 0 THEN "new_lock"
                     ELSE "new_return"]
    /\ ThreadFrame

\* lines 30-36: with cls._lock, the check again; an instance is made with
\* _initialized False and entered in _instances
new_enter(t) ==
    /\ threads.pc[t] = "new_lock"
    /\ threads.class_lock = NoThread
    /\ threads' = [threads EXCEPT !.pc[t] = "new_locked", !.class_lock = t]
    /\ ThreadFrame

new_locked(t) ==
    /\ threads.pc[t] = "new_locked"
    /\ threads' =
           IF threads.instances = 0
           THEN [threads EXCEPT !.pc[t] = "new_return",
                                !.class_lock = NoThread,
                                !.created = @ + 1,
                                !.instances = threads.created + 1,
                                !.initialized = FALSE,
                                !.model = FALSE]
           ELSE [threads EXCEPT !.pc[t] = "new_return",
                                !.class_lock = NoThread]
    /\ ThreadFrame

\* line 42: return cls._instances[current_pid]
new_return(t) ==
    /\ threads.pc[t] = "new_return"
    /\ threads' = [threads EXCEPT !.pc[t] = "init",
                                  !.instance[t] = threads.instances]
    /\ ThreadFrame

\* lines 67-68: __init__ returns when the instance is initialized
init_check(t) ==
    /\ threads.pc[t] = "init"
    /\ threads' = [threads EXCEPT
           !.pc[t] = IF threads.initialized THEN "idle" ELSE "init_fields"]
    /\ ThreadFrame

\* lines 70-78: the fields are assigned, the last of them _model = None
init_model_none(t) ==
    /\ threads.pc[t] = "init_fields"
    /\ threads' = [threads EXCEPT !.pc[t] = "init_done", !.model = FALSE]
    /\ ThreadFrame

\* line 79: _initialized = True
init_initialized(t) ==
    /\ threads.pc[t] = "init_done"
    /\ threads' = [threads EXCEPT !.pc[t] = "idle", !.initialized = TRUE]
    /\ ThreadFrame

RecognizerNext ==
    \/ \E t \in Threads : new_check(t)
    \/ \E t \in Threads : new_enter(t)
    \/ \E t \in Threads : new_locked(t)
    \/ \E t \in Threads : new_return(t)
    \/ \E t \in Threads : init_check(t)
    \/ \E t \in Threads : init_model_none(t)
    \/ \E t \in Threads : init_initialized(t)
    \/ \E t \in Threads : transcribe(t)
    \/ \E t \in Threads : _load_model_enter(t)
    \/ \E t \in Threads : _load_model_leave(t)
    \/ \E t \in Threads : acquire_model_lock(t)
    \/ \E t \in Threads : _transcribe_chunk_enter(t)
    \/ \E t \in Threads : _transcribe_chunk_leave(t)
    \/ \E t \in Threads : release_model_lock(t)

RecognizerSpec == RecognizerInit /\ [][RecognizerNext]_vars

\* all constructions of the process have returned the one instance made
OneInstance ==
    /\ threads.created <= 1
    /\ \A t \in DOMAIN threads.pc :
           threads.pc[t] \notin {"start", "new_lock", "new_locked",
                                 "new_return"} =>
               threads.instance[t] = 1

\* C38: within one process the ASR model is loaded at most once: under any
\* interleaving of SpeechRecognizer constructions and transcribe() calls
\* from several threads, all constructions return the same instance, and
\* once the model handle has been set it is never cleared or replaced, so
\* later acquisitions return without loading again.
C38_ModelLoadedOnce ==
    [][/\ OneInstance'
       /\ threads.model => threads'.model
       /\ threads.model =>
              \A t \in DOMAIN threads.pc : threads'.pc[t] # "loading"]_vars

\* ---------------------------------------------------------------------
\* The two locks of model acquisition and transcription
\* (src/core/speech_recognizer.py): the threads of one process at the
\* class-level _model_lock (_load_model line 89, transcribe line 316), or
\* the worker processes at the flock of the lock file (_load_model lines
\* 112-159).  A behaviour is one of the two scenes; the load a thread makes
\* under _model_lock is the load its process makes in the other scene.
\* ---------------------------------------------------------------------
LockInit == ThreadInit \/ LoadInit

LockNext ==
    \/ threads # NoCall /\ ThreadNext
    \/ loading # NoCall /\ LoadNext

\* thread t, holding _model_lock, goes on: the load and each transcription
\* of a chunk terminate, and the with block is left
holder_step(t) ==
    /\ threads # NoCall
    /\ \/ _load_model_leave(t)
       \/ _transcribe_chunk_enter(t)
       \/ _transcribe_chunk_leave(t)
       \/ release_model_lock(t)

\* thread t, blocked in the acquire of `with self._model_lock`, gets the
\* lock
waiter_step(t) ==
    /\ threads # NoCall
    /\ \/ _load_model_enter(t)
       \/ acquire_model_lock(t)

\* process p, holding the flock, goes on: from_pretrained terminates
flock_holder_step(p) ==
    /\ loading # NoCall
    /\ \/ from_pretrained_locked(p)
       \/ from_pretrained_after_wait(p)

\* process p, blocked in flock(LOCK_EX), gets the lock
flock_waiter_step(p) ==
    /\ loading # NoCall
    /\ flock_blocking(p)

\* a running thread goes on (weak fairness); threading.Lock wakes a blocked
\* thread when the lock is released and does not pass it over for ever
\* (strong fairness: the acquire is enabled only while the lock is free);
\* a process holds the flock once, so a blocked process need only be served
\* when the lock stays free (weak fairness)
LockFairSpec ==
    /\ LockInit
    /\ [][LockNext]_vars
    /\ \A t \in Threads : WF_vars(holder_step(t))
    /\ \A t \in Threads : SF_vars(waiter_step(t))
    /\ \A p \in Jobs : WF_vars(flock_holder_step(p))
    /\ \A p \in Jobs : WF_vars(flock_waiter_step(p))

\* thread t is blocked at _model_lock
WaitsForModelLock(t) ==
    /\ threads # NoCall
    /\ threads.pc[t] \in {"load_acquire", "acquire"}
    /\ threads.lock # NoThread

\* thread t holds _model_lock
HasModelLock(t) ==
    /\ threads # NoCall
    /\ threads.lock = t

\* process p is blocked in flock(LOCK_EX)
WaitsForFlock(p) ==
    /\ loading # NoCall
    /\ loading.pc[p] = "waiting"

\* process p holds the flock
HasFlock(p) ==
    /\ loading # NoCall
    /\ loading.holder = p

FlockContended ==
    /\ loading # NoCall
    /\ \E p, q \in DOMAIN loading.pc :
           /\ WaitsForFlock(p)
           /\ loading.holder = q
           /\ p # q

====
